---- MODULE Spec2Model ----
(***************************************************************************)
(* OpenTPT firmware core (NUCLEO-H503RB): the pulse-train engine of        *)
(* Core/Src/tpt-scpi.c, the PMBus host of pmbus_host.c with its SCPI       *)
(* handlers, and the error queue of the command interpreter, as a state    *)
(* machine.                                                                *)
(*                                                                         *)
(* Time is counted in cycles of the DWT cycle counter.  Periods are        *)
(* integers in nanoseconds (the source holds them as doubles in seconds).  *)
(* One command is handled at a time: a handler starts only when pc is      *)
(* "idle"; TPT_RunPulses is split at its loop heads and busy-wait polls.   *)
(***************************************************************************)
EXTENDS Integers, Sequences, FiniteSets, TLC

(***************************************************************************)
(* Program constants                                                       *)
(***************************************************************************)
\* #define TPT_DEADTIME_NS 200U
TPT_DEADTIME_NS == 200
\* double minimum_period = 5e-7, in nanoseconds
minimum_period == 500
\* double maximum_period = 0.05, in nanoseconds
maximum_period == 50000000
\* SystemCoreClock in MHz: the board runs its system clock at 250 MHz.  The
\* source divides SystemCoreClock * ns by 10^9; with the clock a whole number
\* of MHz that is this number * ns divided by 1000, which stays inside the
\* integers the model checker has.
SystemCoreClockMHz == 250
\* the 500ULL of pulse_width_ns: nanoseconds per stored unit
NsPerUnit == 500
\* #define MAX_PMBUS_DEVICES 4
MAX_PMBUS_DEVICES == 4
\* #define COOLX600_DEFAULT_ADDR 0x5AU
COOLX600_DEFAULT_ADDR == 90

(***************************************************************************)
(* Bounds of the model                                                     *)
(***************************************************************************)
\* capacity of pulse_periods[] (256 in the source), scaled down
TPT_MAXIMUM_NUMBER_PULSES == 3
\* adds given past the capacity before the model stops adding
MaxOverflow == 1
\* largest repetition count given to one run command
MaxReps == 2
\* run commands are given while run_trains + count stays within this
MaxRunTrains == 3
\* cycles the counter advances between two reads of the busy-wait loop:
\* either half of this or all of it
MaxPollCycles == 50

\* capacity of the error queue (SCPI_ERROR_QUEUE_SIZE, 17 in the source),
\* scaled down
SCPI_ERROR_QUEUE_SIZE == 2

\* milliseconds a wait phase of a bus transfer lasts at most (PMBUS_TIMEOUT_MS,
\* 100 in the source), scaled down
PMBUS_TIMEOUT_MS == 2

Capacity == TPT_MAXIMUM_NUMBER_PULSES

VARIABLES
  pulse_periods,              \* uint64_t pulse_periods[]: index 0..Capacity-1
  current_number_pulses,      \* size_t
  running,                    \* bool
  run_trains,                 \* size_t
  deadtime_timer_initialized, \* static bool; the DWT counter runs once it is set
  positive_pin,               \* GPIOB output bit PositivePulse_Pin
  negative_pin,               \* GPIOB output bit NegativePulse_Pin
  irq_enabled,                \* PRIMASK clear
  pc,                         \* position of the command handler
  number_repetitions,         \* TPT_RunPulses local (the target count)
  positive_on,                \* TPT_RunPulses local
  pulse_index,                \* TPT_RunPulses local
  pulse_width_ns,             \* TPT_RunPulses local
  cycles,                     \* delay_ns local
  elapsed,                    \* delay_ns: (uint32_t)(DWT->CYCCNT - start_cycle)
  cmd,                        \* the command handled last
  arg,                        \* its parameter as parsed
  result,                     \* its scpi_result_t
  out,                        \* the response it wrote
  both_off_cycles,            \* history: cycles both outputs have been off, capped
  run_base,                   \* history: run_trains when the current chain of runs began
  run_sum,                    \* history: counts requested in the current chain of runs
  added,                      \* history: values stored by successful adds since clear/reset
  pmbus_host,                 \* PMBus_HostTypeDef pmbus_host (registry, initialized)
  error_queue,                \* the error queue of scpi_context, oldest first
  transfers,                  \* history: status of each bus transfer of the last command
  header,                     \* the command header of the last line given to the interpreter
  callback,                   \* the callback that line was dispatched to, "NULL" if none
  bus,                        \* pmbus_ll.c: the I2C peripheral and the transfer in progress
  block,                      \* the outcome of the last block read of an identification string
  codec,                      \* the last conversion between a number and its wire format
  vout,                       \* cached_vout_mode and the last voltage operation
  sim,                        \* a simulated device behind the host and what was sent to it
  arith                       \* the last computation of the engine made at the width of its C types

engineVars == <<pulse_periods, current_number_pulses, running, run_trains>>
pinVars    == <<positive_pin, negative_pin, both_off_cycles>>
runLocals  == <<number_repetitions, positive_on, pulse_index, pulse_width_ns>>
delayVars  == <<cycles, elapsed>>
ioVars     == <<cmd, arg, result, out>>
chainVars  == <<run_base, run_sum>>
hostVars   == <<pmbus_host, error_queue, transfers>>
dispatchVars == <<header, callback>>
dataVars   == <<codec, vout, sim, arith>>
llVars     == <<bus, block, dataVars>>
\* everything the pulse engine owns
engineState == <<engineVars, deadtime_timer_initialized, pinVars, irq_enabled,
                 pc, runLocals, delayVars, chainVars, added>>

vars == <<pulse_periods, current_number_pulses, running, run_trains,
          deadtime_timer_initialized, positive_pin, negative_pin, irq_enabled,
          pc, number_repetitions, positive_on, pulse_index, pulse_width_ns,
          cycles, elapsed, cmd, arg, result, out, both_off_cycles,
          run_base, run_sum, added, pmbus_host, error_queue, transfers,
          header, callback, bus, block, codec, vout, sim, arith>>

(***************************************************************************)
(* Parameters as the SCPI parser hands them to a handler                   *)
(***************************************************************************)
\* no parameter, or one that does not parse: SCPI_Param* returns FALSE
Absent   == [t |-> "absent", v |-> 0]
\* a number too large for a double (1e999): strtod gives +infinity
Inf      == [t |-> "inf", v |-> 0]
\* a number: a period in nanoseconds, or a repetition count
Num(x)   == [t |-> "num", v |-> x]
NoArg    == [t |-> "none", v |-> 0]

Min(a, b) == IF a < b THEN a ELSE b

(***************************************************************************)
(* Quantisation: round(period / minimum_period) converted to uint64_t      *)
(***************************************************************************)
\* What a double outside the range of uint64_t (negative, infinite) converts
\* to is undefined: the builds give 0, or a saturated or wrapped value, here
\* a value too large to be a quantised valid period.
GarbageUnits == 4000000
UndefinedUnits == {0, 1, GarbageUnits}

\* round(): to the nearest integer; a tie goes away from zero on the exact
\* quotient, but the double quotient of a tie may fall on either side of it
\* (123250e-9 / 5e-7 is 246.49999999999997), so a tie gives either neighbour.
RoundedUnits(p) ==
  LET m  == IF p < 0 THEN -p ELSE p
      lo == m \div minimum_period
      r  == m % minimum_period
      mags == IF 2 * r < minimum_period THEN {lo}
              ELSE IF 2 * r > minimum_period THEN {lo + 1}
              ELSE {lo, lo + 1}
  IN  IF p < 0 THEN {-x : x \in mags} ELSE mags

\* the values pulse_periods[i] = round(period / minimum_period) can store
StoredUnits(prm) ==
  IF prm.t = "inf" THEN UndefinedUnits
  ELSE UNION {IF q >= 0 THEN {q} ELSE UndefinedUnits : q \in RoundedUnits(prm.v)}

\* pulse_periods[i] * minimum_period, as nanoseconds
ToPeriod(units) == units * minimum_period

(***************************************************************************)
(* delay_ns                                                                *)
(***************************************************************************)
\* cycles = SystemCoreClock * delay_ns_value / 10^9, at least 1
DelayCycles(ns) ==
  LET c == (SystemCoreClockMHz * ns) \div 1000
  IN  IF c = 0 THEN 1 ELSE c

\* a cycle counter that stands still (DWT->CYCCNT not counting)
PollCycles_stopped == {0}

\* cycles the counter advances between two reads of DWT->CYCCNT
PollCycles == {MaxPollCycles \div 2, MaxPollCycles}

BothOff == ~positive_pin /\ ~negative_pin

\* the history of the off time, capped at the dead-time in cycles
OffCap == DelayCycles(TPT_DEADTIME_NS)

(***************************************************************************)
(* Initial state: the globals as tpt-scpi.c defines them, outputs low      *)
(***************************************************************************)
\* The I2C peripheral after reset and pmbus_ll.c before PMBus_LL_Init: ISR
\* holds TXE alone (transmit register empty), no transfer has been called.
\* op .. status describe the transfer in progress or the last one; nacked and
\* flagged record whether the device has not acknowledged and whether any flag
\* was up during it; elapsed is HAL_GetTick() - tickstart of the wait phase.
BusReset ==
  [pmbus_initialized |-> FALSE, isr |-> {"TXE"}, stack |-> {},
   cr2 |-> [rd |-> FALSE, nbytes |-> 0, autoend |-> FALSE, stop |-> FALSE],
   rxdr |-> 0, pc |-> "idle", op |-> "none", max_len |-> 0, ip |-> 0,
   elapsed |-> 0, block_len |-> 0, data |-> <<>>, status |-> "none",
   nacked |-> FALSE, flagged |-> FALSE, events |-> <<>>, arrived |-> <<>>]

\* no identification string has been read
NoBlock == [fn |-> "none", L |-> 0, size |-> 0, cap |-> 0, len |-> 0,
            stored |-> 0, end |-> "none", terminator |-> -1]

\* no conversion has been made
NoCodec == [fn |-> "none"]

\* pmbus_ll.c before any voltage operation: static int8_t cached_vout_mode =
\* -13.  ll_read and host_read are history: the set of the exponent each
\* driver last read from the mode register with success, empty before the
\* first.  The
\* other fields describe the last voltage operation: whether an exponent had
\* been read before it, whether it read the mode register and with what
\* status, the exponent it converted with, the word it sent or received.
VoutReset ==
  [cached_vout_mode |-> -13, ll_read |-> {}, host_read |-> {},
   fn |-> "none", had_exponent |-> FALSE, last_read |-> {},
   mode_read |-> FALSE, mode_status |-> "none", exponent |-> 0, word |-> 0,
   status |-> "none", voltage |-> 0]

\* no computation has been made
NoArith == [fn |-> "none"]

\* the simulated device holds 0 in VOUT_COMMAND and no word has been sent
NoDevice == [vout_command |-> 0, sent |-> -1]

Init ==
  /\ pulse_periods = [i \in 0..(Capacity - 1) |-> 0]
  /\ current_number_pulses = 0
  /\ running = FALSE
  /\ run_trains = 0
  /\ deadtime_timer_initialized = FALSE
  /\ positive_pin = FALSE
  /\ negative_pin = FALSE
  /\ irq_enabled = TRUE
  /\ pc = "idle"
  /\ number_repetitions = 0
  /\ positive_on = FALSE
  /\ pulse_index = 0
  /\ pulse_width_ns = 0
  /\ cycles = 0
  /\ elapsed = 0
  /\ cmd = "none"
  /\ arg = NoArg
  /\ result = "OK"
  /\ out = <<>>
  /\ both_off_cycles = 0
  /\ run_base = 0
  /\ run_sum = 0
  /\ added = <<>>
  /\ pmbus_host = [initialized |-> FALSE,
                   devices |-> [d \in 0..(MAX_PMBUS_DEVICES - 1) |->
                                  [address |-> 0, page |-> 0, online |-> 0]],
                   device_count |-> 0,
                   current_device |-> 0]
  /\ error_queue = <<>>
  /\ transfers = <<>>
  /\ header = "NULL"
  /\ callback = "NULL"
  /\ bus = BusReset
  /\ block = NoBlock
  /\ codec = NoCodec
  /\ vout = VoutReset
  /\ sim = NoDevice
  /\ arith = NoArith

(***************************************************************************)
(* Pins                                                                    *)
(***************************************************************************)
\* a reset that drives the positive output low and leaves the negative one
\* (a mutant of reset_pins)
reset_pins_positive_only ==
  /\ positive_pin' = FALSE
  /\ negative_pin' = negative_pin
  /\ both_off_cycles' = IF BothOff THEN both_off_cycles ELSE 0

\* a reset that writes nothing to the port (a mutant of reset_pins)
reset_pins_none ==
  /\ positive_pin' = positive_pin
  /\ negative_pin' = negative_pin
  /\ both_off_cycles' = both_off_cycles

\* GPIOB->BSRR = (PositivePulse_Pin | NegativePulse_Pin) << 16: both low.
\* The off time starts when an output that was high goes low.
reset_pins ==
  /\ positive_pin' = FALSE
  /\ negative_pin' = FALSE
  /\ both_off_cycles' = IF BothOff THEN both_off_cycles ELSE 0

\* a command that changes the engine ends the chain of consecutive runs
ChainEnds(trains) ==
  /\ run_base' = trains
  /\ run_sum' = 0

Responds(c, a, r, o) ==
  /\ cmd' = c
  /\ arg' = a
  /\ result' = r
  /\ out' = o

(***************************************************************************)
(* Handlers that run to completion                                         *)
(***************************************************************************)
\* a reset that clears only the length and the counter, as the firmware of the
\* older board does (the mutant of SCPI_Reset)
SCPI_Reset_counters_only ==
  /\ pc = "idle"
  /\ current_number_pulses' = 0
  /\ run_trains' = 0
  /\ added' = <<>>
  /\ ChainEnds(0)
  /\ Responds("reset", NoArg, "OK", <<>>)
  /\ UNCHANGED <<pulse_periods, running, pinVars, deadtime_timer_initialized,
                 irq_enabled, pc, runLocals, delayVars, pmbus_host,
                 error_queue, transfers>>

\* *RST: SCPI_CoreRst calls the interface's reset, which touches the engine
\* only
SCPI_Reset ==
  /\ pc = "idle"
  /\ current_number_pulses' = 0
  /\ run_trains' = 0
  /\ running' = FALSE
  /\ reset_pins
  /\ added' = <<>>
  /\ ChainEnds(0)
  /\ Responds("reset", NoArg, "OK", <<>>)
  /\ UNCHANGED <<pulse_periods, deadtime_timer_initialized, irq_enabled, pc,
                 runLocals, delayVars, pmbus_host, error_queue, transfers>>

\* The store pulse_periods[i] for i past the array is undefined: it lands on
\* whatever the linker placed behind the array.  The globals defined next to
\* it are current_number_pulses, running and run_trains; "none" is memory the
\* engine does not read.
OobTargets == {"none", "current_number_pulses", "running", "run_trains"}

\* CONFigure:PULses:ADD <seconds>
TPT_AddPulse(prm) ==
  /\ pc = "idle"
  /\ IF prm.t = "absent"
     THEN /\ Responds("add", prm, "ERR", <<>>)
          /\ UNCHANGED <<engineVars, added>>
     ELSE \E units \in StoredUnits(prm) :
            /\ IF current_number_pulses < Capacity
               THEN /\ pulse_periods' =
                          [pulse_periods EXCEPT ![current_number_pulses] = units]
                    /\ current_number_pulses' = current_number_pulses + 1
                    /\ UNCHANGED <<running, run_trains>>
               ELSE \E target \in OobTargets :
                      /\ current_number_pulses' =
                            IF target = "current_number_pulses"
                            THEN units + 1
                            ELSE current_number_pulses + 1
                      /\ running' = IF target = "running" THEN units # 0
                                    ELSE running
                      /\ run_trains' = IF target = "run_trains" THEN units
                                       ELSE run_trains
                      /\ UNCHANGED pulse_periods
            /\ added' = Append(added, units)
            /\ Responds("add", prm, "OK", <<>>)
  /\ ChainEnds(run_trains')
  /\ UNCHANGED <<deadtime_timer_initialized, pinVars, irq_enabled, pc,
                 runLocals, delayVars>>

\* a clear that leaves the length alone (the mutant of TPT_ClearPulses)
TPT_ClearPulses_keeps ==
  /\ pc = "idle"
  /\ added' = <<>>
  /\ ChainEnds(run_trains)
  /\ Responds("clear", NoArg, "OK", <<>>)
  /\ UNCHANGED <<engineVars, deadtime_timer_initialized, pinVars, irq_enabled,
                 pc, runLocals, delayVars>>

\* CONFigure:PULses:CLEAR
TPT_ClearPulses ==
  /\ pc = "idle"
  /\ current_number_pulses' = 0
  /\ added' = <<>>
  /\ ChainEnds(run_trains)
  /\ Responds("clear", NoArg, "OK", <<>>)
  /\ UNCHANGED <<pulse_periods, running, run_trains, deadtime_timer_initialized,
                 pinVars, irq_enabled, pc, runLocals, delayVars>>

\* What TPT_ReadPulses writes: the stored values times minimum_period, in
\* index order; oob counts the entries it reads past the array, whose values
\* are undefined.
ReadResponse ==
  [vals |-> [k \in 1..Min(current_number_pulses, Capacity) |->
                ToPeriod(pulse_periods[k - 1])],
   oob  |-> IF current_number_pulses > Capacity
            THEN current_number_pulses - Capacity ELSE 0]

\* CONFigure:PULses?
TPT_ReadPulses ==
  /\ pc = "idle"
  /\ UNCHANGED chainVars
  /\ Responds("read", NoArg, "OK", ReadResponse)
  /\ UNCHANGED <<engineVars, added, deadtime_timer_initialized, pinVars,
                 irq_enabled, pc, runLocals, delayVars>>

\* APPlication:PULses:COUNT?
TPT_GetCountPulses ==
  /\ pc = "idle"
  /\ UNCHANGED chainVars
  /\ Responds("count", NoArg, "OK", <<run_trains>>)
  /\ UNCHANGED <<engineVars, added, deadtime_timer_initialized, pinVars,
                 irq_enabled, pc, runLocals, delayVars>>

\* *OPC?
TPT_CoreOpcQ ==
  /\ pc = "idle"
  /\ UNCHANGED chainVars
  /\ Responds("opc", NoArg, "OK", <<IF running THEN 0 ELSE 1>>)
  /\ UNCHANGED <<engineVars, added, deadtime_timer_initialized, pinVars,
                 irq_enabled, pc, runLocals, delayVars>>

(***************************************************************************)
(* TPT_RunPulses                                                           *)
(***************************************************************************)
\* delay_ns(ns) up to its first read of the counter: cycles and start_cycle
delay_ns_begin(ns) ==
  /\ cycles' = DelayCycles(ns)
  /\ elapsed' = 0

\* the count taken as the counter value to reach (the mutant of RepetitionTarget)
RepetitionTarget_absolute(count) == count

\* number_repetitions += run_trains: the counter value the run ends at
RepetitionTarget(count) == count + run_trains

\* a parse that takes a missing count for 0 (the mutant of ParamUInt32)
ParamUInt32_lenient(prm) == TRUE

\* SCPI_ParamUInt32(context, &number_repetitions, TRUE): whether a count was
\* given and parsed
ParamUInt32(prm) == prm.t # "absent"

\* APPlication:PULses:RUN <count>: the parse, and on success the lines before
\* the repetition loop (reset_pins, init_deadtime_timer, running = true,
\* number_repetitions += run_trains)
TPT_RunPulses(prm) ==
  /\ pc = "idle"
  /\ IF ~ParamUInt32(prm)
     THEN /\ Responds("run", prm, "ERR", <<>>)
          /\ UNCHANGED <<running, deadtime_timer_initialized, pinVars, pc,
                         number_repetitions, run_sum>>
     ELSE /\ reset_pins
          /\ deadtime_timer_initialized' = TRUE
          /\ running' = TRUE
          /\ number_repetitions' = RepetitionTarget(prm.v)
          /\ run_sum' = run_sum + prm.v
          /\ pc' = "rep_test"
          /\ Responds("run", prm, "none", <<>>)
  /\ UNCHANGED <<pulse_periods, current_number_pulses, run_trains, added,
                 irq_enabled, positive_on, pulse_index, pulse_width_ns,
                 delayVars, run_base>>

\* a run that empties the sequence when it ends (the mutant of RepetitionTest)
RepetitionTest_consumes ==
  /\ pc = "rep_test"
  /\ IF run_trains < number_repetitions
     THEN /\ reset_pins
          /\ positive_on' = FALSE
          /\ irq_enabled' = FALSE
          /\ pulse_index' = 0
          /\ pc' = "pulse_test"
          /\ UNCHANGED <<running, ioVars, current_number_pulses>>
     ELSE /\ running' = FALSE
          /\ reset_pins
          /\ pc' = "idle"
          /\ current_number_pulses' = 0
          /\ Responds(cmd, arg, "OK", <<>>)
          /\ UNCHANGED <<positive_on, irq_enabled, pulse_index>>
  /\ UNCHANGED <<pulse_periods, run_trains, added,
                 deadtime_timer_initialized, number_repetitions,
                 pulse_width_ns, delayVars, chainVars>>

\* a repetition that starts with the polarity the last one ended with (a
\* mutant of RepetitionTest)
RepetitionTest_carries ==
  /\ pc = "rep_test"
  /\ IF run_trains < number_repetitions
     THEN /\ reset_pins
          /\ positive_on' = positive_on
          /\ irq_enabled' = FALSE
          /\ pulse_index' = 0
          /\ pc' = "pulse_test"
          /\ UNCHANGED <<running, ioVars>>
     ELSE /\ running' = FALSE
          /\ reset_pins
          /\ pc' = "idle"
          /\ Responds(cmd, arg, "OK", <<>>)
          /\ UNCHANGED <<positive_on, irq_enabled, pulse_index>>
  /\ UNCHANGED <<pulse_periods, current_number_pulses, run_trains, added,
                 deadtime_timer_initialized, number_repetitions,
                 pulse_width_ns, delayVars, chainVars>>

\* for (; run_trains < number_repetitions; ...): the head of a repetition,
\* or the end of the handler (running = false, reset_pins, return)
RepetitionTest ==
  /\ pc = "rep_test"
  /\ IF run_trains < number_repetitions
     THEN /\ reset_pins
          /\ positive_on' = FALSE
          /\ irq_enabled' = FALSE
          /\ pulse_index' = 0
          /\ pc' = "pulse_test"
          /\ UNCHANGED <<running, ioVars>>
     ELSE /\ running' = FALSE
          /\ reset_pins
          /\ pc' = "idle"
          /\ Responds(cmd, arg, "OK", <<>>)
          /\ UNCHANGED <<positive_on, irq_enabled, pulse_index>>
  /\ UNCHANGED <<pulse_periods, current_number_pulses, run_trains, added,
                 deadtime_timer_initialized, number_repetitions,
                 pulse_width_ns, delayVars, chainVars>>

\* a read of pulse_periods[i]; past the array the value is undefined
OobUnits == {0, 1}
PulseUnits(i) == IF i < Capacity THEN {pulse_periods[i]} ELSE OobUnits

\* for (pulse_index < current_number_pulses): the next interval, up to the
\* start of the dead-time delay (pulse_width_ns, the toggle, reset_pins,
\* delay_ns(TPT_DEADTIME_NS)); past the last one the switching loop ends and
\* __enable_irq() is the next statement, the outputs as the last interval
\* left them
PulseTest ==
  /\ pc = "pulse_test"
  /\ IF pulse_index < current_number_pulses
     THEN /\ \E units \in PulseUnits(pulse_index) :
               pulse_width_ns' = units * NsPerUnit
          /\ positive_on' = ~positive_on
          /\ reset_pins
          /\ delay_ns_begin(TPT_DEADTIME_NS)
          /\ pc' = "dead_wait"
          /\ UNCHANGED <<irq_enabled, run_trains>>
     ELSE /\ irq_enabled' = TRUE
          /\ pc' = "rep_end"
          /\ UNCHANGED <<positive_on, pulse_width_ns, delayVars, pinVars,
                         run_trains>>
  /\ UNCHANGED <<pulse_periods, current_number_pulses, running, added,
                 deadtime_timer_initialized, number_repetitions, pulse_index,
                 ioVars, chainVars>>

\* the end of a repetition, after __enable_irq(): reset_pins(), then the
\* run_trains++ of the repetition loop
RepetitionEnd ==
  /\ pc = "rep_end"
  /\ reset_pins
  /\ run_trains' = run_trains + 1
  /\ pc' = "rep_test"
  /\ UNCHANGED <<pulse_periods, current_number_pulses, running, added,
                 deadtime_timer_initialized, irq_enabled, runLocals,
                 delayVars, ioVars, chainVars>>

\* a loop that gives up half-way (the mutant of delay_ns_waiting)
delay_ns_waiting_short(e) == 2 * e < cycles

\* the loop continues while (uint32_t)(DWT->CYCCNT - start_cycle) < cycles
delay_ns_waiting(e) == e < cycles

\* one read of the counter in the busy-wait loop of delay_ns: the counter has
\* advanced since the last read (it runs once init_deadtime_timer enabled it)
DelayPoll ==
  /\ pc \in {"dead_wait", "hold_wait"}
  /\ \E d \in PollCycles :
       LET e == IF deadtime_timer_initialized THEN elapsed + d ELSE elapsed
       IN  /\ elapsed' = e
           /\ both_off_cycles' = IF BothOff /\ deadtime_timer_initialized
                                 THEN Min(both_off_cycles + d, OffCap)
                                 ELSE both_off_cycles
           /\ IF delay_ns_waiting(e)
              THEN UNCHANGED <<pc, pulse_index>>
              ELSE IF pc = "dead_wait"
                   THEN /\ pc' = "assert"
                        /\ UNCHANGED pulse_index
                   ELSE /\ pc' = "pulse_test"
                        /\ pulse_index' = pulse_index + 1
  /\ UNCHANGED <<engineVars, added, deadtime_timer_initialized, positive_pin,
                 negative_pin, irq_enabled, number_repetitions, positive_on,
                 pulse_width_ns, cycles, ioVars, chainVars>>

\* after the dead-time: GPIOB->BSRR = the pin of the new polarity, then the
\* hold for the rest of the interval when it is longer than the dead-time
AssertOutput ==
  /\ pc = "assert"
  /\ IF positive_on
     THEN /\ positive_pin' = TRUE
          /\ UNCHANGED negative_pin
     ELSE /\ negative_pin' = TRUE
          /\ UNCHANGED positive_pin
  /\ both_off_cycles' = 0
  /\ IF pulse_width_ns > TPT_DEADTIME_NS
     THEN /\ delay_ns_begin(pulse_width_ns - TPT_DEADTIME_NS)
          /\ pc' = "hold_wait"
          /\ UNCHANGED pulse_index
     ELSE /\ pulse_index' = pulse_index + 1
          /\ pc' = "pulse_test"
          /\ UNCHANGED delayVars
  /\ UNCHANGED <<engineVars, added, deadtime_timer_initialized, irq_enabled,
                 number_repetitions, positive_on, pulse_width_ns, ioVars,
                 chainVars>>

(***************************************************************************)
(* The error queue of the command interpreter                              *)
(***************************************************************************)
\* What a push can leave in the queue: the error is appended while there is
\* room; a full queue keeps its length, and its newest entry is either kept
\* or replaced by the overflow marker.
PushResults(err) ==
  IF Len(error_queue) < SCPI_ERROR_QUEUE_SIZE
  THEN {Append(error_queue, err)}
  ELSE {error_queue,
        [error_queue EXCEPT ![Len(error_queue)] = "QUEUE_OVERFLOW"]}

\* a push that loses the error (the mutant of SCPI_ErrorPush)
SCPI_ErrorPush_lost(err) == UNCHANGED error_queue

\* SCPI_ErrorPush(context, err)
SCPI_ErrorPush(err) == error_queue' \in PushResults(err)

\* a mandatory parameter that is missing or does not parse: SCPI_Param*
\* returns FALSE and the interpreter records the error
ParamErrorPushed(prm) ==
  IF prm.t = "absent" THEN SCPI_ErrorPush("MISSING_PARAMETER")
  ELSE UNCHANGED error_queue

(***************************************************************************)
(* The PMBus host (pmbus_host.c)                                           *)
(***************************************************************************)
CurrentDevice == pmbus_host.devices[pmbus_host.current_device]

\* The status a transfer of the host returns (PMBus_WriteByte, PMBus_WriteWord,
\* PMBus_ReadByteCmd, PMBus_ReadWordCmd, PMBus_ReadBlockCmd,
\* PMBus_SendCommand): HAL_ERROR without a transaction while the host is not
\* initialized; else what PMBus_WaitReady returns: HAL_OK, HAL_TIMEOUT when
\* the stack is not ready after PMBUS_TIMEOUT_MS, HAL_ERROR when the stack
\* reports an error (a negative acknowledge among them).
HostTransferResults ==
  IF pmbus_host.initialized THEN {"HAL_OK", "HAL_ERROR", "HAL_TIMEOUT"}
  ELSE {"HAL_ERROR"}

\* bytes and words the remote device answers with
DeviceBytes == {128}
DeviceWords == {4660}

\* what a getter hands back: the value read, or the 0 its local was set to
\* when the transfer failed
GetterValue(st, v) == IF st = "HAL_OK" THEN v ELSE 0

\* (uint8_t) of an int32_t parameter
Uint8(x) == x % 256

\* a numeric parameter that names a special value (MINimum, MAXimum, ...)
Special == [t |-> "special", v |-> 0]
\* a numeric parameter with a unit that is not volt
BadUnit == [t |-> "unit", v |-> 0]

\* the end of a host handler: result, response and the statuses of the
\* transfers it made; the pulse engine is not touched
HostReply(c, a, r, o, sts) ==
  /\ pc = "idle"
  /\ Responds(c, a, r, o)
  /\ transfers' = sts
  /\ UNCHANGED engineState

\* a handler that swallows a failed transfer (the mutant of Surfaced)
Surfaced_swallowed(c, a, sts, o) ==
  /\ HostReply(c, a, "OK", o, sts)
  /\ UNCHANGED error_queue

\* if (<transfer> != HAL_OK) { SCPI_ErrorPush(context,
\* SCPI_ERROR_EXECUTION_ERROR); return SCPI_RES_ERR; } ... return SCPI_RES_OK;
\* decided by the status of the handler's last transfer
Surfaced(c, a, sts, o) ==
  IF sts[Len(sts)] = "HAL_OK"
  THEN /\ HostReply(c, a, "OK", o, sts)
       /\ UNCHANGED error_queue
  ELSE /\ HostReply(c, a, "ERR", <<>>, sts)
       /\ SCPI_ErrorPush("EXECUTION_ERROR")

\* SCPI_Result*(context, <getter>()); return SCPI_RES_OK;
Answered(c, sts, o) ==
  /\ HostReply(c, NoArg, "OK", o, sts)
  /\ UNCHANGED error_queue

\* a handler that ends before any transfer with an error in the queue
Rejected(c, a, err) ==
  /\ HostReply(c, a, "ERR", <<>>, <<>>)
  /\ SCPI_ErrorPush(err)

\* PMBus:INITialize: PMBus_Host_Init, where HAL_SMBUS_Init or STACK_SMBUS_Init
\* may fail
SCPI_PMBus_Init ==
  \E ok \in (IF pmbus_host.initialized THEN {TRUE} ELSE BOOLEAN) :
    IF ok
    THEN /\ pmbus_host' =
              IF pmbus_host.initialized THEN pmbus_host
              ELSE [pmbus_host EXCEPT
                      !.devices[0] = [address |-> COOLX600_DEFAULT_ADDR,
                                      page |-> 0, online |-> 0],
                      !.device_count = 1,
                      !.current_device = 0,
                      !.initialized = TRUE]
         /\ HostReply("PMBus:INITialize", NoArg, "OK", <<>>, <<>>)
         /\ UNCHANGED error_queue
    ELSE /\ UNCHANGED pmbus_host
         /\ Rejected("PMBus:INITialize", NoArg, "EXECUTION_ERROR")

\* PMBus_SetAddress: if (address > 0x77 || address < 0x08) return HAL_ERROR
AddressValid(address) == ~(address > 119 \/ address < 8)

\* PMBus:ADDRess <address>
SCPI_PMBus_SetAddress(prm) ==
  IF prm.t = "absent"
  THEN /\ Rejected("PMBus:ADDRess", prm, "MISSING_PARAMETER")
       /\ UNCHANGED pmbus_host
  ELSE IF AddressValid(Uint8(prm.v))
       THEN /\ pmbus_host' =
                 [pmbus_host EXCEPT
                    !.devices[pmbus_host.current_device].address = Uint8(prm.v)]
            /\ HostReply("PMBus:ADDRess", prm, "OK", <<>>, <<>>)
            /\ UNCHANGED error_queue
       ELSE /\ Rejected("PMBus:ADDRess", prm, "ILLEGAL_PARAMETER_VALUE")
            /\ UNCHANGED pmbus_host

\* PMBus:ADDRess?
SCPI_PMBus_GetAddressQ ==
  /\ Answered("PMBus:ADDRess?", <<>>, <<CurrentDevice.address>>)
  /\ UNCHANGED pmbus_host

\* a page stored whatever the write returned (the mutant of
\* SCPI_PMBus_SetPage)
SCPI_PMBus_SetPage_always(prm) ==
  IF prm.t = "absent"
  THEN /\ Rejected("PMBus:PAGE", prm, "MISSING_PARAMETER")
       /\ UNCHANGED pmbus_host
  ELSE \E st \in HostTransferResults :
         /\ pmbus_host' =
              [pmbus_host EXCEPT
                 !.devices[pmbus_host.current_device].page = Uint8(prm.v)]
         /\ Surfaced("PMBus:PAGE", prm, <<st>>, <<>>)

\* PMBus:PAGE <page>: PMBus_SetPage stores the page when the write succeeded
SCPI_PMBus_SetPage(prm) ==
  IF prm.t = "absent"
  THEN /\ Rejected("PMBus:PAGE", prm, "MISSING_PARAMETER")
       /\ UNCHANGED pmbus_host
  ELSE \E st \in HostTransferResults :
         /\ pmbus_host' =
              IF st = "HAL_OK"
              THEN [pmbus_host EXCEPT
                      !.devices[pmbus_host.current_device].page = Uint8(prm.v)]
              ELSE pmbus_host
         /\ Surfaced("PMBus:PAGE", prm, <<st>>, <<>>)

\* PMBus:PAGE?
SCPI_PMBus_GetPageQ ==
  /\ Answered("PMBus:PAGE?", <<>>, <<CurrentDevice.page>>)
  /\ UNCHANGED pmbus_host

\* OUTPut[:STATe] ON: PMBus_PowerOn writes OPERATION = 0x80
SCPI_PMBus_PowerOn ==
  /\ \E st \in HostTransferResults : Surfaced("OUTPut ON", NoArg, <<st>>, <<>>)
  /\ UNCHANGED pmbus_host

\* OUTPut[:STATe] OFF: PMBus_PowerOff writes OPERATION = 0x00
SCPI_PMBus_PowerOff ==
  /\ \E st \in HostTransferResults : Surfaced("OUTPut OFF", NoArg, <<st>>, <<>>)
  /\ UNCHANGED pmbus_host

\* PMBus:OPERation <value>
SCPI_PMBus_SetOperation(prm) ==
  /\ IF prm.t = "absent"
     THEN Rejected("PMBus:OPERation", prm, "MISSING_PARAMETER")
     ELSE \E st \in HostTransferResults :
            Surfaced("PMBus:OPERation", prm, <<st>>, <<>>)
  /\ UNCHANGED pmbus_host

\* PMBus:OPERation?: PMBus_GetOperation ignores the status of its read
SCPI_PMBus_GetOperationQ ==
  /\ \E st \in HostTransferResults, b \in DeviceBytes :
       Answered("PMBus:OPERation?", <<st>>, <<GetterValue(st, b)>>)
  /\ UNCHANGED pmbus_host

\* PMBus:CLEar, OUTPut:PROTection:CLEar: PMBus_ClearFaults sends CLEAR_FAULTS
SCPI_PMBus_ClearFaults ==
  /\ \E st \in HostTransferResults :
       Surfaced("OUTPut:PROTection:CLEar", NoArg, <<st>>, <<>>)
  /\ UNCHANGED pmbus_host

\* a value a query answers with: the word read, to be decoded in the named
\* format (LINEAR16 with the exponent of the mode byte, LINEAR11 with its own)
Reading(format, word, mode) == [format |-> format, word |-> word, mode |-> mode]
\* the 0.0 a getter returns when its read failed
ZeroReading == [format |-> "zero", word |-> 0, mode |-> 0]

\* SOURce:VOLTage <voltage>: PMBus_SetVout reads VOUT_MODE (status ignored),
\* then writes VOUT_COMMAND
SCPI_PMBus_SetVoltage(prm) ==
  /\ IF prm.t = "absent"
     THEN Rejected("SOURce:VOLTage", prm, "MISSING_PARAMETER")
     ELSE IF prm.t = "special"
     THEN Rejected("SOURce:VOLTage", prm, "ILLEGAL_PARAMETER_VALUE")
     ELSE IF prm.t = "unit"
     THEN Rejected("SOURce:VOLTage", prm, "INVALID_SUFFIX")
     ELSE \E st1 \in HostTransferResults, st2 \in HostTransferResults :
            Surfaced("SOURce:VOLTage", prm, <<st1, st2>>, <<>>)
  /\ UNCHANGED pmbus_host

\* PMBus_GetVout, PMBus_ReadVout: VOUT_MODE is read (status ignored), then the
\* word; 0.0 when the read of the word failed
VoltageGetter(c) ==
  /\ \E st1 \in HostTransferResults, st2 \in HostTransferResults,
        m \in DeviceBytes, w \in DeviceWords :
       Answered(c, <<st1, st2>>,
                <<IF st2 = "HAL_OK"
                  THEN Reading("LINEAR16", w, GetterValue(st1, m))
                  ELSE ZeroReading>>)
  /\ UNCHANGED pmbus_host

\* PMBus_ReadIout, PMBus_ReadPout, PMBus_ReadTemperature1, PMBus_ReadVin,
\* PMBus_ReadIin: one word read; 0.0 when it failed
TelemetryGetter(c) ==
  /\ \E st \in HostTransferResults, w \in DeviceWords :
       Answered(c, <<st>>,
                <<IF st = "HAL_OK" THEN Reading("LINEAR11", w, 0)
                  ELSE ZeroReading>>)
  /\ UNCHANGED pmbus_host

\* SOURce:VOLTage?
SCPI_PMBus_GetVoltageQ == VoltageGetter("SOURce:VOLTage?")
\* MEASure:VOLTage?
SCPI_PMBus_MeasureVoltageQ == VoltageGetter("MEASure:VOLTage?")
\* MEASure:CURRent?
SCPI_PMBus_MeasureCurrentQ == TelemetryGetter("MEASure:CURRent?")
\* MEASure:POWer?
SCPI_PMBus_MeasurePowerQ == TelemetryGetter("MEASure:POWer?")
\* MEASure:TEMPerature?
SCPI_PMBus_MeasureTemperatureQ == TelemetryGetter("MEASure:TEMPerature?")
\* MEASure:VOLTage:INPut?
SCPI_PMBus_MeasureVinQ == TelemetryGetter("MEASure:VOLTage:INPut?")
\* MEASure:CURRent:INPut?
SCPI_PMBus_MeasureIinQ == TelemetryGetter("MEASure:CURRent:INPut?")

\* STATus:BYTE?: PMBus_ReadStatusByte ignores the status of its read
SCPI_PMBus_GetStatusByteQ ==
  /\ \E st \in HostTransferResults, b \in DeviceBytes :
       Answered("STATus:BYTE?", <<st>>, <<GetterValue(st, b)>>)
  /\ UNCHANGED pmbus_host

\* STATus:WORD?: PMBus_ReadStatusWord ignores the status of its read
SCPI_PMBus_GetStatusWordQ ==
  /\ \E st \in HostTransferResults, w \in DeviceWords :
       Answered("STATus:WORD?", <<st>>, <<GetterValue(st, w)>>)
  /\ UNCHANGED pmbus_host

\* SYSTem:MFR:ID?, :MODel?, :SERial?: a block read into buffer[32]
MfrQuery(c, text) ==
  /\ \E st \in HostTransferResults : Surfaced(c, NoArg, <<st>>, <<text>>)
  /\ UNCHANGED pmbus_host

SCPI_PMBus_GetMfrIdQ == MfrQuery("SYSTem:MFR:ID?", "id")
SCPI_PMBus_GetMfrModelQ == MfrQuery("SYSTem:MFR:MODel?", "model")
SCPI_PMBus_GetMfrSerialQ == MfrQuery("SYSTem:MFR:SERial?", "serial")

\* the parameters of raw register access: <cmd>[,<data>][,<size>]
RegArg(c, d, size) == [t |-> "reg", v |-> c, data |-> d, size |-> size]

\* PMBus:REGister <cmd>,<data>[,<size>]: a word write when size is 2, else a
\* byte write
SCPI_PMBus_WriteReg(prm) ==
  /\ IF prm.t = "absent"
     THEN Rejected("PMBus:REGister", prm, "MISSING_PARAMETER")
     ELSE \E st \in HostTransferResults :
            Surfaced("PMBus:REGister", prm, <<st>>, <<>>)
  /\ UNCHANGED pmbus_host

\* PMBus:REGister? <cmd>[,<size>]: a word read when size is 2, else a byte read
SCPI_PMBus_ReadRegQ(prm) ==
  /\ IF prm.t = "absent"
     THEN Rejected("PMBus:REGister?", prm, "MISSING_PARAMETER")
     ELSE \E st \in HostTransferResults,
             x \in (IF prm.size = 2 THEN DeviceWords ELSE DeviceBytes) :
            Surfaced("PMBus:REGister?", prm, <<st>>, <<x>>)
  /\ UNCHANGED pmbus_host

\* an error query that takes the newest entry (the mutant of
\* SCPI_SystemErrorNextQ)
SCPI_SystemErrorNextQ_newest ==
  /\ pc = "idle"
  /\ IF error_queue = <<>>
     THEN /\ Responds("SYSTem:ERRor?", NoArg, "OK", <<"NO_ERROR">>)
          /\ UNCHANGED error_queue
     ELSE /\ Responds("SYSTem:ERRor?", NoArg, "OK",
                      <<error_queue[Len(error_queue)]>>)
          /\ error_queue' = SubSeq(error_queue, 1, Len(error_queue) - 1)
  /\ UNCHANGED <<engineState, pmbus_host, transfers>>

\* SYSTem:ERRor[:NEXT]?: answers the oldest error and removes it; "NO_ERROR"
\* when the queue is empty
SCPI_SystemErrorNextQ ==
  /\ pc = "idle"
  /\ IF error_queue = <<>>
     THEN /\ Responds("SYSTem:ERRor?", NoArg, "OK", <<"NO_ERROR">>)
          /\ UNCHANGED error_queue
     ELSE /\ Responds("SYSTem:ERRor?", NoArg, "OK", <<Head(error_queue)>>)
          /\ error_queue' = Tail(error_queue)
  /\ UNCHANGED <<engineState, pmbus_host, transfers>>

\* SYSTem:ERRor:COUNt?: answers the number of queued errors
SCPI_SystemErrorCountQ ==
  /\ pc = "idle"
  /\ Responds("SYSTem:ERRor:COUNt?", NoArg, "OK", <<Len(error_queue)>>)
  /\ UNCHANGED <<engineState, hostVars>>

(***************************************************************************)
(* The engine under the commands of a session                              *)
(***************************************************************************)
\* periods given to add in Spec: below the minimum (stored as 0), 0.5 us, and
\* no parameter
RunPeriods == {Num(200), Num(minimum_period), Absent}

RunCounts == {Num(n) : n \in 0..MaxReps} \cup {Absent}

Next ==
  \/ \E prm \in RunPeriods :
       /\ current_number_pulses < Capacity + MaxOverflow
       /\ Len(added) < Capacity + MaxOverflow
       /\ TPT_AddPulse(prm)
       /\ UNCHANGED <<hostVars, dispatchVars, llVars>>
  \/ TPT_ClearPulses /\ UNCHANGED <<hostVars, dispatchVars, llVars>>
  \/ TPT_ReadPulses /\ UNCHANGED <<hostVars, dispatchVars, llVars>>
  \/ TPT_GetCountPulses /\ UNCHANGED <<hostVars, dispatchVars, llVars>>
  \/ TPT_CoreOpcQ /\ UNCHANGED <<hostVars, dispatchVars, llVars>>
  \/ SCPI_Reset /\ UNCHANGED <<dispatchVars, llVars>>
  \/ \E prm \in RunCounts :
       /\ run_trains + prm.v <= MaxRunTrains
       /\ TPT_RunPulses(prm)
       /\ UNCHANGED <<hostVars, dispatchVars, llVars>>
  \/ RepetitionTest /\ UNCHANGED <<hostVars, dispatchVars, llVars>>
  \/ PulseTest /\ UNCHANGED <<hostVars, dispatchVars, llVars>>
  \/ RepetitionEnd /\ UNCHANGED <<hostVars, dispatchVars, llVars>>
  \/ DelayPoll /\ UNCHANGED <<hostVars, dispatchVars, llVars>>
  \/ AssertOutput /\ UNCHANGED <<hostVars, dispatchVars, llVars>>

Spec == Init /\ [][Next]_vars

\* the steps of TPT_RunPulses between its call and its return
RunStep ==
  \/ RepetitionTest
  \/ PulseTest
  \/ RepetitionEnd
  \/ DelayPoll
  \/ AssertOutput

\* the handler runs to its end on the processor: nothing preempts it for good
\* (interrupts return), and the cycle counter read by delay_ns advances
SpecRunFair ==
  /\ Spec
  /\ WF_vars(RunStep /\ UNCHANGED <<hostVars, dispatchVars, llVars>>)

(***************************************************************************)
(* The sequence under add, clear, read and reset with periods of the whole *)
(* range of a double: negative, zero, a tie of the rounding, the maximum,  *)
(* above the maximum, infinite                                             *)
(***************************************************************************)
ConfigPeriods ==
  {Num(-1000), Num(0), Num(750), Num(maximum_period),
   Num(maximum_period + 1000000), Inf, Absent}

NextConfig ==
  \/ \E prm \in ConfigPeriods :
       /\ current_number_pulses < Capacity + MaxOverflow
       /\ Len(added) < Capacity + MaxOverflow
       /\ TPT_AddPulse(prm)
       /\ UNCHANGED <<hostVars, dispatchVars, llVars>>
  \/ TPT_ClearPulses /\ UNCHANGED <<hostVars, dispatchVars, llVars>>
  \/ TPT_ReadPulses /\ UNCHANGED <<hostVars, dispatchVars, llVars>>
  \/ SCPI_Reset /\ UNCHANGED <<dispatchVars, llVars>>

SpecConfig == Init /\ [][NextConfig]_vars

(***************************************************************************)
(* The PMBus host under its commands, each handler called as its table     *)
(* entry names it, with the queries of the error queue                     *)
(***************************************************************************)
\* addresses given to PMBus:ADDRess: valid, below the range, above 255 with
\* low bits in the range (256 + 16), negative with low bits out of the range
\* and in it (-256 + 16), missing
HostAddresses == {Num(16), Num(7), Num(272), Num(-1), Num(-240), Absent}
HostPages == {Num(0), Num(1), Absent}
HostOperations == {Num(128), Absent}
HostVoltages == {Num(12), Special, BadUnit, Absent}
HostRegWrites == {RegArg(33, 4660, 2), RegArg(1, 128, 1), Absent}
HostRegReads == {RegArg(139, 0, 2), RegArg(1, 0, 1), Absent}

NextHost ==
  \/ SCPI_PMBus_Init /\ UNCHANGED <<dispatchVars, llVars>>
  \/ \E prm \in HostAddresses : SCPI_PMBus_SetAddress(prm) /\ UNCHANGED <<dispatchVars, llVars>>
  \/ SCPI_PMBus_GetAddressQ /\ UNCHANGED <<dispatchVars, llVars>>
  \/ \E prm \in HostPages : SCPI_PMBus_SetPage(prm) /\ UNCHANGED <<dispatchVars, llVars>>
  \/ SCPI_PMBus_GetPageQ /\ UNCHANGED <<dispatchVars, llVars>>
  \/ SCPI_PMBus_PowerOn /\ UNCHANGED <<dispatchVars, llVars>>
  \/ SCPI_PMBus_PowerOff /\ UNCHANGED <<dispatchVars, llVars>>
  \/ \E prm \in HostOperations : SCPI_PMBus_SetOperation(prm) /\ UNCHANGED <<dispatchVars, llVars>>
  \/ SCPI_PMBus_GetOperationQ /\ UNCHANGED <<dispatchVars, llVars>>
  \/ SCPI_PMBus_ClearFaults /\ UNCHANGED <<dispatchVars, llVars>>
  \/ \E prm \in HostVoltages : SCPI_PMBus_SetVoltage(prm) /\ UNCHANGED <<dispatchVars, llVars>>
  \/ SCPI_PMBus_GetVoltageQ /\ UNCHANGED <<dispatchVars, llVars>>
  \/ SCPI_PMBus_MeasureVoltageQ /\ UNCHANGED <<dispatchVars, llVars>>
  \/ SCPI_PMBus_MeasureCurrentQ /\ UNCHANGED <<dispatchVars, llVars>>
  \/ SCPI_PMBus_MeasurePowerQ /\ UNCHANGED <<dispatchVars, llVars>>
  \/ SCPI_PMBus_MeasureTemperatureQ /\ UNCHANGED <<dispatchVars, llVars>>
  \/ SCPI_PMBus_GetStatusByteQ /\ UNCHANGED <<dispatchVars, llVars>>
  \/ SCPI_PMBus_GetStatusWordQ /\ UNCHANGED <<dispatchVars, llVars>>
  \/ SCPI_PMBus_MeasureVinQ /\ UNCHANGED <<dispatchVars, llVars>>
  \/ SCPI_PMBus_MeasureIinQ /\ UNCHANGED <<dispatchVars, llVars>>
  \/ SCPI_PMBus_GetMfrIdQ /\ UNCHANGED <<dispatchVars, llVars>>
  \/ SCPI_PMBus_GetMfrModelQ /\ UNCHANGED <<dispatchVars, llVars>>
  \/ SCPI_PMBus_GetMfrSerialQ /\ UNCHANGED <<dispatchVars, llVars>>
  \/ \E prm \in HostRegWrites : SCPI_PMBus_WriteReg(prm) /\ UNCHANGED <<dispatchVars, llVars>>
  \/ \E prm \in HostRegReads : SCPI_PMBus_ReadRegQ(prm) /\ UNCHANGED <<dispatchVars, llVars>>
  \/ SCPI_SystemErrorNextQ /\ UNCHANGED <<dispatchVars, llVars>>
  \/ SCPI_SystemErrorCountQ /\ UNCHANGED <<dispatchVars, llVars>>

SpecHost == Init /\ [][NextHost]_vars

(***************************************************************************)
(* The engine and the host side by side: intervals of one length, runs of  *)
(* one repetition, the host initialized and readdressed, and *RST          *)
(***************************************************************************)
NextReset ==
  \/ /\ current_number_pulses < Capacity + MaxOverflow
     /\ Len(added) < Capacity + MaxOverflow
     /\ TPT_AddPulse(Num(minimum_period))
     /\ UNCHANGED <<hostVars, dispatchVars, llVars>>
  \/ /\ run_trains + 1 <= MaxRunTrains
     /\ TPT_RunPulses(Num(1))
     /\ UNCHANGED <<hostVars, dispatchVars, llVars>>
  \/ RepetitionTest /\ UNCHANGED <<hostVars, dispatchVars, llVars>>
  \/ PulseTest /\ UNCHANGED <<hostVars, dispatchVars, llVars>>
  \/ RepetitionEnd /\ UNCHANGED <<hostVars, dispatchVars, llVars>>
  \/ DelayPoll /\ UNCHANGED <<hostVars, dispatchVars, llVars>>
  \/ AssertOutput /\ UNCHANGED <<hostVars, dispatchVars, llVars>>
  \/ SCPI_PMBus_Init /\ UNCHANGED <<dispatchVars, llVars>>
  \/ SCPI_PMBus_SetAddress(Num(16)) /\ UNCHANGED <<dispatchVars, llVars>>
  \/ SCPI_PMBus_SetPage(Num(1)) /\ UNCHANGED <<dispatchVars, llVars>>
  \/ SCPI_Reset /\ UNCHANGED <<dispatchVars, llVars>>

SpecReset == Init /\ [][NextReset]_vars

(***************************************************************************)
(* The low-level transfers (pmbus_ll.c) and PMBus_WaitReady (pmbus_host.c), *)
(* statement by statement, against an I2C peripheral whose flags the bus   *)
(* raises at any time                                                      *)
(***************************************************************************)
\* bytes the device sends
BusBytes == {0, 2}
\* buffer sizes a block read is called with
BusMaxLens == {0, 1}

\* the statements of a transfer
\* PMBUS_I2C->CR2 = (address << 1) | [RD_WRN] | (n << NBYTES_Pos) | [AUTOEND]
\*                  | START
SetCR2(rd, n, autoend) ==
  [k |-> "CR2", rd |-> rd, nbytes |-> n, autoend |-> autoend]
\* status = I2C_WaitFlag(flag, PMBUS_TIMEOUT_MS); if (status != PMBUS_OK)
\* return status;
Wait(flag) == [k |-> "I2C_WaitFlag", flag |-> flag]
\* return I2C_WaitStop(PMBUS_TIMEOUT_MS)
WaitStop == [k |-> "I2C_WaitStop"]
\* return PMBus_WaitReady(PMBUS_TIMEOUT_MS)
WaitReady == [k |-> "PMBus_WaitReady"]
\* PMBUS_I2C->TXDR = <byte>
WriteTXDR == [k |-> "TXDR"]
\* <byte> = (uint8_t)PMBUS_I2C->RXDR
ReadRXDR == [k |-> "RXDR"]
\* block_len = RXDR; if (block_len > max_len) block_len = max_len;
\* *actual_len = block_len
ReadLength == [k |-> "block_len"]
\* PMBUS_I2C->CR2 |= I2C_CR2_STOP
SetStop == [k |-> "STOP"]

\* a command byte written with automatic end, so that a STOP follows it (the
\* mutant of CommandPhase)
CommandPhase_autoend ==
  <<SetCR2(FALSE, 1, TRUE), Wait("TXE"), WriteTXDR, Wait("TC")>>

\* the phase that writes the command byte without automatic end
CommandPhase ==
  <<SetCR2(FALSE, 1, FALSE), Wait("TXE"), WriteTXDR, Wait("TC")>>

\* n times: wait for a received byte and read it
RECURSIVE Receive(_)
Receive(n) ==
  IF n = 0 THEN <<>> ELSE <<Wait("RXNE"), ReadRXDR>> \o Receive(n - 1)

\* n times: wait for the transmit register and write it
RECURSIVE Transmit(_)
Transmit(n) ==
  IF n = 0 THEN <<>> ELSE <<Wait("TXE"), WriteTXDR>> \o Transmit(n - 1)

\* the statements of each transfer behind its initialisation check, in the
\* order of the source; n is the block length a block read has clamped
Statements(op, n) ==
  CASE op = "PMBus_LL_SendByte" ->
         <<SetCR2(FALSE, 1, TRUE)>> \o Transmit(1) \o <<WaitStop>>
    [] op = "PMBus_LL_WriteByte" ->
         <<SetCR2(FALSE, 2, TRUE)>> \o Transmit(2) \o <<WaitStop>>
    [] op = "PMBus_LL_WriteWord" ->
         <<SetCR2(FALSE, 3, TRUE)>> \o Transmit(3) \o <<WaitStop>>
    [] op = "PMBus_LL_ReadByte" ->
         CommandPhase \o <<SetCR2(TRUE, 1, TRUE)>> \o Receive(1) \o <<WaitStop>>
    [] op = "PMBus_LL_ReadWord" ->
         CommandPhase \o <<SetCR2(TRUE, 2, TRUE)>> \o Receive(2) \o <<WaitStop>>
    [] op = "PMBus_LL_ReadBlock" ->
         CommandPhase
           \o <<SetCR2(TRUE, 1, FALSE), Wait("RXNE"), ReadLength, Wait("TC")>>
           \o (IF n > 0
               THEN <<SetCR2(TRUE, n, TRUE)>> \o Receive(n) \o <<WaitStop>>
               ELSE <<SetStop, WaitStop>>)
    [] op = "PMBus_WaitReady" -> <<WaitReady>>

LLTransfers ==
  {"PMBus_LL_SendByte", "PMBus_LL_WriteByte", "PMBus_LL_WriteWord",
   "PMBus_LL_ReadByte", "PMBus_LL_ReadWord", "PMBus_LL_ReadBlock"}

\* the statement the transfer in progress is at
Statement == Statements(bus.op, bus.block_len)[bus.ip]

\* the transfer returns
Return(b, st) == [b EXCEPT !.pc = "idle", !.status = st]

\* the transfer goes on with its next statement (a wait phase reads
\* tickstart = HAL_GetTick() on entry); behind the last one it returns what the
\* last wait returned.  events is the history of the statements the call has
\* completed.
Advance(b) ==
  LET done == [b EXCEPT
                 !.events = Append(@, Statements(b.op, b.block_len)[b.ip])]
  IN  IF b.ip = Len(Statements(b.op, b.block_len))
      THEN Return(done,
                  IF b.op = "PMBus_WaitReady" THEN "HAL_OK" ELSE "PMBUS_OK")
      ELSE [done EXCEPT !.ip = @ + 1, !.elapsed = 0]

\* PMBus_LL_Init: configures the peripheral once; disabling it (PE = 0) puts
\* the flags back to their reset values
PMBus_LL_Init ==
  /\ bus.pc = "idle"
  /\ ~bus.pmbus_initialized
  /\ bus' = [bus EXCEPT !.pmbus_initialized = TRUE, !.isr = {"TXE"},
                        !.cr2 = BusReset.cr2]
  /\ UNCHANGED block

\* PMBus_LL_DeInit
PMBus_LL_DeInit ==
  /\ bus.pc = "idle"
  /\ bus.pmbus_initialized
  /\ bus' = [bus EXCEPT !.pmbus_initialized = FALSE, !.isr = {"TXE"}]
  /\ UNCHANGED block

\* a low-level transfer that starts whether or not the driver is initialized
\* (the mutant of PMBus_LL_Transfer)
PMBus_LL_Transfer_unchecked(op, max_len) ==
  /\ bus.pc = "idle"
  /\ bus' = [bus EXCEPT !.op = op, !.max_len = max_len, !.ip = 1,
                        !.elapsed = 0, !.block_len = 0, !.data = <<>>,
                        !.nacked = FALSE, !.flagged = (bus.isr # {}),
                        !.events = <<>>,
                        !.arrived = IF "RXNE" \in bus.isr THEN <<bus.rxdr>>
                                    ELSE <<>>,
                        !.pc = "run", !.status = "none"]
  /\ UNCHANGED block

\* the call of a transfer: if (!pmbus_initialized) return PMBUS_ERROR
PMBus_LL_Transfer(op, max_len) ==
  /\ bus.pc = "idle"
  /\ LET b == [bus EXCEPT !.op = op, !.max_len = max_len, !.ip = 1,
                          !.elapsed = 0, !.block_len = 0, !.data = <<>>,
                          !.nacked = FALSE, !.flagged = (bus.isr # {}),
                          !.events = <<>>,
                          !.arrived = IF "RXNE" \in bus.isr THEN <<bus.rxdr>>
                                      ELSE <<>>]
     IN  bus' = IF bus.pmbus_initialized
                THEN [b EXCEPT !.pc = "run", !.status = "none"]
                ELSE [b EXCEPT !.ip = 0, !.status = "PMBUS_ERROR"]
  /\ UNCHANGED block

\* a transfer of the host behind STACK_SMBUS_HostCommand: the stack is busy
\* with the command and PMBus_WaitReady is called
PMBus_HostTransfer ==
  /\ bus.pc = "idle"
  /\ bus' = [bus EXCEPT !.op = "PMBus_WaitReady", !.ip = 1, !.elapsed = 0,
                        !.stack = {}, !.pc = "run", !.data = <<>>,
                        !.status = "none",
                        !.block_len = 0, !.max_len = 0,
                        !.nacked = FALSE, !.flagged = FALSE,
                        !.events = <<>>, !.arrived = <<>>]
  /\ UNCHANGED block

\* a statement that is no wait.  Writing CR2 with START clears TC, writing
\* TXDR clears TXE, reading RXDR clears RXNE.
Execute ==
  /\ bus.pc = "run"
  /\ LET st == Statement
     IN  /\ st.k \in {"CR2", "TXDR", "RXDR", "block_len", "STOP"}
         /\ bus' =
              CASE st.k = "CR2" ->
                     Advance([bus EXCEPT
                                !.cr2 = [rd |-> st.rd, nbytes |-> st.nbytes,
                                         autoend |-> st.autoend, stop |-> FALSE],
                                !.isr = @ \ {"TC"}])
                [] st.k = "TXDR" ->
                     Advance([bus EXCEPT !.isr = @ \ {"TXE"}])
                [] st.k = "RXDR" ->
                     Advance([bus EXCEPT !.isr = @ \ {"RXNE"},
                                        !.data = Append(@, bus.rxdr)])
                [] st.k = "block_len" ->
                     Advance([bus EXCEPT !.isr = @ \ {"RXNE"},
                                        !.block_len = Min(bus.rxdr, bus.max_len)])
                [] st.k = "STOP" ->
                     Advance([bus EXCEPT !.cr2.stop = TRUE, !.isr = @ \ {"TC"}])
  /\ UNCHANGED block

\* a wait for a flag that never gives up (the mutant of I2C_WaitFlag)
I2C_WaitFlag_forever ==
  /\ bus.pc = "run"
  /\ Statement.k = "I2C_WaitFlag"
  /\ bus' = IF Statement.flag \in bus.isr THEN Advance(bus)
            ELSE IF "NACKF" \in bus.isr
            THEN Return([bus EXCEPT !.isr = @ \ {"NACKF"}], "PMBUS_NACK")
            ELSE bus
  /\ UNCHANGED block

\* I2C_WaitFlag: one evaluation of the loop condition and, with the flag
\* down, of the loop body
I2C_WaitFlag ==
  /\ bus.pc = "run"
  /\ Statement.k = "I2C_WaitFlag"
  /\ bus' = IF Statement.flag \in bus.isr THEN Advance(bus)
            ELSE IF bus.elapsed > PMBUS_TIMEOUT_MS
            THEN Return(bus, "PMBUS_TIMEOUT")
            ELSE IF "NACKF" \in bus.isr
            THEN Return([bus EXCEPT !.isr = @ \ {"NACKF"}], "PMBUS_NACK")
            ELSE bus
  /\ UNCHANGED block

\* I2C_WaitStop: the same loop without a look at NACKF; STOPF is cleared
I2C_WaitStop ==
  /\ bus.pc = "run"
  /\ Statement.k = "I2C_WaitStop"
  /\ bus' = IF "STOPF" \in bus.isr
            THEN Advance([bus EXCEPT !.isr = @ \ {"STOPF"}])
            ELSE IF bus.elapsed > PMBUS_TIMEOUT_MS
            THEN Return(bus, "PMBUS_TIMEOUT")
            ELSE bus
  /\ UNCHANGED block

\* PMBus_WaitReady: the loop of the host over the state of the SMBus stack
PMBus_WaitReady ==
  /\ bus.pc = "run"
  /\ Statement.k = "PMBus_WaitReady"
  /\ bus' = IF "READY" \in bus.stack THEN Advance(bus)
            ELSE IF bus.elapsed > PMBUS_TIMEOUT_MS
            THEN Return(bus, "HAL_TIMEOUT")
            ELSE IF "SMBUS_ERROR_CRITICAL" \in bus.stack
            THEN Return([bus EXCEPT !.stack = @ \ {"SMBUS_ERROR_CRITICAL"}],
                        "HAL_ERROR")
            ELSE IF "SMBUS_COM_ERROR" \in bus.stack
            THEN Return([bus EXCEPT !.stack = @ \ {"SMBUS_COM_ERROR"}],
                        "HAL_ERROR")
            ELSE bus
  /\ UNCHANGED block

\* the transfer in progress is in a wait phase
Waiting ==
  /\ bus.pc = "run"
  /\ Statement.k \in {"I2C_WaitFlag", "I2C_WaitStop", "PMBus_WaitReady"}

\* the millisecond tick advances during a wait phase (counted up to the first
\* value behind the timeout, where every wait gives up)
Tick ==
  /\ Waiting
  /\ bus.elapsed <= PMBUS_TIMEOUT_MS
  /\ bus' = [bus EXCEPT !.elapsed = @ + 1]
  /\ UNCHANGED block

\* the peripheral raises a flag during a transfer; with RXNE a byte of the
\* device is in RXDR (arrived is the history of these bytes since the call)
RaiseFlag(f) ==
  /\ bus.pc = "run"
  /\ bus.op \in LLTransfers
  /\ f \notin bus.isr
  /\ \E byte \in (IF f = "RXNE" THEN BusBytes ELSE {bus.rxdr}) :
       bus' = [bus EXCEPT !.isr = @ \cup {f}, !.rxdr = byte,
                          !.flagged = TRUE,
                          !.nacked = @ \/ f = "NACKF",
                          !.arrived = IF f = "RXNE" THEN Append(@, byte)
                                      ELSE @]
  /\ UNCHANGED block

\* the SMBus stack finishes the command or reports an error
StackEvent(f) ==
  /\ bus.pc = "run"
  /\ bus.op = "PMBus_WaitReady"
  /\ f \notin bus.stack
  /\ bus' = [bus EXCEPT !.stack = @ \cup {f}, !.flagged = TRUE]
  /\ UNCHANGED block

\* everything but the bus layer
aboveBus == <<engineState, ioVars, hostVars, dispatchVars, dataVars>>

\* the steps of the program
BusProgram ==
  \/ Execute
  \/ I2C_WaitFlag
  \/ I2C_WaitStop
  \/ PMBus_WaitReady

NextBus ==
  \/ PMBus_LL_Init /\ UNCHANGED aboveBus
  \/ PMBus_LL_DeInit /\ UNCHANGED aboveBus
  \/ \E op \in LLTransfers :
       \E max_len \in (IF op = "PMBus_LL_ReadBlock" THEN BusMaxLens ELSE {0}) :
         PMBus_LL_Transfer(op, max_len) /\ UNCHANGED aboveBus
  \/ PMBus_HostTransfer /\ UNCHANGED aboveBus
  \/ Execute /\ UNCHANGED aboveBus
  \/ I2C_WaitFlag /\ UNCHANGED aboveBus
  \/ I2C_WaitStop /\ UNCHANGED aboveBus
  \/ PMBus_WaitReady /\ UNCHANGED aboveBus
  \/ Tick /\ UNCHANGED aboveBus
  \/ \E f \in {"TXE", "RXNE", "TC", "STOPF", "NACKF"} :
       RaiseFlag(f) /\ UNCHANGED aboveBus
  \/ \E f \in {"READY", "SMBUS_ERROR_CRITICAL", "SMBUS_COM_ERROR"} :
       StackEvent(f) /\ UNCHANGED aboveBus

SpecBus == Init /\ [][NextBus]_vars

\* the processor keeps executing the transfer and the tick keeps advancing
SpecBusFair ==
  /\ SpecBus
  /\ WF_vars(BusProgram /\ UNCHANGED aboveBus)
  /\ WF_vars(Tick /\ UNCHANGED aboveBus)

(***************************************************************************)
(* The transfer primitives of both drivers around initialisation and       *)
(* de-initialisation (PMBus_LL_Init / PMBus_LL_DeInit, PMBus_Host_Init /   *)
(* PMBus_Host_DeInit)                                                      *)
(***************************************************************************)
\* the transfer primitives of the host
HostPrimitives ==
  {"PMBus_SendCommand", "PMBus_WriteByte", "PMBus_WriteWord",
   "PMBus_ReadByteCmd", "PMBus_ReadWordCmd", "PMBus_ReadBlockCmd"}

\* everything but the host record and the bus layer
aboveHost == <<engineState, ioVars, error_queue, transfers, dispatchVars>>

\* PMBus_Host_Init, where STACK_SMBUS_Init may fail
PMBus_Host_Init ==
  /\ bus.pc = "idle"
  /\ ~pmbus_host.initialized
  /\ \E ok \in BOOLEAN :
       pmbus_host' =
         IF ok
         THEN [pmbus_host EXCEPT
                 !.devices[0] = [address |-> COOLX600_DEFAULT_ADDR,
                                 page |-> 0, online |-> 0],
                 !.device_count = 1,
                 !.current_device = 0,
                 !.initialized = TRUE]
         ELSE pmbus_host
  /\ UNCHANGED <<aboveHost, llVars>>

\* PMBus_Host_DeInit
PMBus_Host_DeInit ==
  /\ bus.pc = "idle"
  /\ pmbus_host.initialized
  /\ pmbus_host' = [pmbus_host EXCEPT !.initialized = FALSE]
  /\ UNCHANGED <<aboveHost, llVars>>

\* the call of a transfer primitive of the host: if (!pmbus_host.initialized)
\* return HAL_ERROR; else the command goes to the stack and PMBus_WaitReady
\* is called
PMBus_HostCall(fn) ==
  IF pmbus_host.initialized
  THEN PMBus_HostTransfer
  ELSE /\ bus.pc = "idle"
       /\ bus' = [bus EXCEPT !.op = fn, !.ip = 0, !.elapsed = 0,
                             !.data = <<>>, !.status = "HAL_ERROR",
                             !.block_len = 0, !.max_len = 0,
                             !.nacked = FALSE, !.flagged = FALSE,
                             !.events = <<>>, !.arrived = <<>>]
       /\ UNCHANGED block

NextInit ==
  \/ PMBus_LL_Init /\ UNCHANGED aboveBus
  \/ PMBus_LL_DeInit /\ UNCHANGED aboveBus
  \/ PMBus_Host_Init
  \/ PMBus_Host_DeInit
  \/ \E op \in LLTransfers :
       \E max_len \in (IF op = "PMBus_LL_ReadBlock" THEN BusMaxLens ELSE {0}) :
         PMBus_LL_Transfer(op, max_len) /\ UNCHANGED aboveBus
  \/ \E fn \in HostPrimitives : PMBus_HostCall(fn) /\ UNCHANGED aboveBus
  \/ Execute /\ UNCHANGED aboveBus
  \/ I2C_WaitFlag /\ UNCHANGED aboveBus
  \/ I2C_WaitStop /\ UNCHANGED aboveBus
  \/ PMBus_WaitReady /\ UNCHANGED aboveBus
  \/ Tick /\ UNCHANGED aboveBus
  \/ \E f \in {"TXE", "RXNE", "TC", "STOPF", "NACKF"} :
       RaiseFlag(f) /\ UNCHANGED aboveBus
  \/ \E f \in {"READY", "SMBUS_ERROR_CRITICAL", "SMBUS_COM_ERROR"} :
       StackEvent(f) /\ UNCHANGED aboveBus

SpecInit == Init /\ [][NextInit]_vars

(***************************************************************************)
(* Block reads into a caller's buffer (PMBus_LL_ReadBlock,                 *)
(* PMBus_ReadBlockCmd) and the reads of the identification strings         *)
(***************************************************************************)
\* lengths the device reports in the first byte of a block
BlockLengths == {0, 1, 2, 31, 32, 255}
\* buffer sizes the reads are called with (uint8_t max_len)
BlockSizes == {0, 1, 2, 32, 255}

\* where a block read ends: with every byte read, before the length byte
\* was read (a failed wait of the command or length phase, or no
\* initialisation), or behind it (a failed wait of the data phase)
BlockEnds == {"ok", "before_length", "behind_length"}

\* PMBus_LL_ReadBlock(cmd, data, max_len, &actual_len), *actual_len holding
\* len0 at the call: what it reports and how many bytes it has stored in data
\* when it ends as e after i bytes of the data phase
LL_ReadBlock(L, max_len, len0, e, i) ==
  LET block_len == Min(L, max_len)
  IN  CASE e = "ok" -> [len |-> block_len, stored |-> block_len]
        [] e = "before_length" -> [len |-> len0, stored |-> 0]
        [] e = "behind_length" -> [len |-> block_len, stored |-> Min(i, block_len)]

\* PMBus_ReadBlockCmd(cmd, data, &len), *len holding len0 at the call: the
\* block is copied and *len written once the stack is ready
ReadBlockCmd(L, len0, e) ==
  IF e = "ok" THEN [len |-> Min(L, len0), stored |-> Min(L, len0)]
  ELSE [len |-> len0, stored |-> 0]

\* the outcome of a read: the function, the length the device reported, the
\* size of the caller's buffer, the size handed to the block read, the length
\* reported, the number of bytes stored from data[0] on, and the index the
\* terminating zero was written at (-1: none written)
Outcome(fn, L, size, cap, r, e, terminator) ==
  [fn |-> fn, L |-> L, size |-> size, cap |-> cap, len |-> r.len,
   stored |-> r.stored, end |-> e, terminator |-> terminator]

\* a block read called with the size of the caller's buffer
PMBus_LL_ReadBlock(L, max_len, e, i) ==
  /\ block' = Outcome("PMBus_LL_ReadBlock", L, max_len, max_len,
                      LL_ReadBlock(L, max_len, 0, e, i), e, -1)
  /\ UNCHANGED <<aboveBus, bus>>

\* PMBus_ReadBlockCmd called with *len the size of the caller's buffer
PMBus_ReadBlockCmd(L, max_len, e) ==
  /\ block' = Outcome("PMBus_ReadBlockCmd", L, max_len, max_len,
                      ReadBlockCmd(L, max_len, e), e, -1)
  /\ UNCHANGED <<aboveBus, bus>>

\* PMBus_LL_ReadMfrId(buffer, max_len): uint8_t len = max_len - 1; the block
\* read; buffer[len] = '\0' whatever the status
PMBus_LL_ReadMfrId(L, max_len, e, i) ==
  /\ LET len0 == Uint8(max_len - 1)
         r == LL_ReadBlock(L, len0, len0, e, i)
     IN  block' = Outcome("PMBus_LL_ReadMfrId", L, max_len, len0, r, e, r.len)
  /\ UNCHANGED <<aboveBus, bus>>

\* PMBus_ReadMfrId / PMBus_ReadMfrModel / PMBus_ReadMfrSerial(buffer,
\* max_len): uint8_t len = max_len - 1; the block read; buffer[len] = '\0'
\* if the status is HAL_OK
PMBus_ReadMfrId(L, max_len, e) ==
  /\ LET len0 == Uint8(max_len - 1)
         r == ReadBlockCmd(L, len0, e)
     IN  block' = Outcome("PMBus_ReadMfrId", L, max_len, len0, r, e,
                          IF e = "ok" THEN r.len ELSE -1)
  /\ UNCHANGED <<aboveBus, bus>>

NextBlock ==
  \/ \E L \in BlockLengths, max_len \in BlockSizes, e \in BlockEnds :
       \E i \in 0..Min(L, max_len) : PMBus_LL_ReadBlock(L, max_len, e, i)
  \/ \E L \in BlockLengths, max_len \in BlockSizes :
       \E e \in {"ok", "before_length"} : PMBus_ReadBlockCmd(L, max_len, e)
  \/ \E L \in BlockLengths, max_len \in BlockSizes, e \in BlockEnds :
       \E i \in 0..Min(L, Uint8(max_len - 1)) :
         PMBus_LL_ReadMfrId(L, max_len, e, i)
  \/ \E L \in BlockLengths, max_len \in BlockSizes :
       \E e \in {"ok", "before_length"} : PMBus_ReadMfrId(L, max_len, e)

SpecBlock == Init /\ [][NextBlock]_vars

(***************************************************************************)
(* The number formats of the wire (LINEAR11, LINEAR16): each conversion    *)
(* applied once to an input                                                *)
(***************************************************************************)
RECURSIVE Pow2(_)
Pow2(k) == IF k = 0 THEN 1 ELSE 2 * Pow2(k - 1)

\* x & y of two non-negative numbers
RECURSIVE BitAnd(_, _)
BitAnd(x, y) ==
  IF x = 0 \/ y = 0 THEN 0
  ELSE 2 * BitAnd(x \div 2, y \div 2) + (x % 2) * (y % 2)

\* x & mask for a signed x in two's complement and a mask below 2^16
AndMask(x, mask) == BitAnd(x % 65536, mask)

\* a double that is a whole number of powers of two: m * 2^e.  Every double
\* the conversions produce or are given here is of this form, exactly.
Double(m, e) == [m |-> m, e |-> e]

\* the same double written with an odd m (0 as 0 * 2^0)
RECURSIVE Norm(_)
Norm(d) ==
  IF d.m = 0 THEN Double(0, 0)
  ELSE IF d.m % 2 = 0 THEN Norm(Double(d.m \div 2, d.e + 1))
  ELSE d

\* a == b of two doubles
DoubleEq(a, b) == Norm(a) = Norm(b)

\* Linear11_ToDouble without the sign extension of the mantissa (the mutant
\* of Linear11_ToDouble)
Linear11_ToDouble_unsigned(linear11) ==
  LET mantissa == BitAnd(linear11, 2047)
      e0 == BitAnd(linear11 \div 2048, 31)
      exponent == IF e0 > 15 THEN e0 - 32 ELSE e0
  IN  Double(mantissa, exponent)

\* Linear11_ToDouble(uint16_t linear11)
Linear11_ToDouble(linear11) ==
  LET m0 == BitAnd(linear11, 2047)
      mantissa == IF m0 > 1023 THEN m0 - 2048 ELSE m0
      e0 == BitAnd(linear11 \div 2048, 31)
      exponent == IF e0 > 15 THEN e0 - 32 ELSE e0
  IN  Double(mantissa, exponent)

\* value / pow(2.0, exp) cut to a whole number towards zero, which is what the
\* conversion of the quotient to an integer type keeps of it
Quotient(value, exp) ==
  LET s == value.e - exp
  IN  IF s >= 0 THEN value.m * Pow2(s)
      ELSE IF -s > 30 THEN 0
      ELSE IF value.m >= 0 THEN value.m \div Pow2(-s)
      ELSE -((-value.m) \div Pow2(-s))

\* the quotient is within what the model's integers hold
Fits(value, exp) ==
  LET s == value.e - exp
      a == IF value.m < 0 THEN -value.m ELSE value.m
  IN  IF s <= 0 THEN TRUE
      ELSE IF s > 30 THEN FALSE
      ELSE a <= 1073741823 \div Pow2(s)

\* (int16_t) of a double with whole part t: t when it is within the type;
\* outside it the conversion is undefined, and the build gives the low 16
\* bits of the 32-bit conversion or the nearest bound of the type
Int16Cast(t) ==
  IF t >= -32768 /\ t <= 32767 THEN {t}
  ELSE {((t + 32768) % 65536) - 32768, IF t < 0 THEN -32768 ELSE 32767}

\* (uint16_t) of a double with whole part t, likewise
Uint16Cast(t) ==
  IF t >= 0 /\ t <= 65535 THEN {t}
  ELSE {t % 65536, IF t < 0 THEN 0 ELSE 65535}

\* if (mantissa > 1023) mantissa = 1023; if (mantissa < -1024) mantissa = -1024;
Clamp11(mantissa) ==
  IF mantissa > 1023 THEN 1023 ELSE IF mantissa < -1024 THEN -1024 ELSE mantissa

\* Double_ToLinear11 with a mantissa that is not masked (the mutant of
\* Double_ToLinear11)
Double_ToLinear11_unmasked(value, exp) ==
  {Clamp11(mantissa) + AndMask(exp, 31) * 2048 :
     mantissa \in Int16Cast(Quotient(value, exp))}

\* Double_ToLinear11(double value, int8_t exp): the words it can return
Double_ToLinear11(value, exp) ==
  {AndMask(Clamp11(mantissa), 2047) + AndMask(exp, 31) * 2048 :
     mantissa \in Int16Cast(Quotient(value, exp))}

\* the exponent of a mode byte without its sign (the mutant of Exponent5)
Exponent5_unsigned(vout_mode) == AndMask(vout_mode, 31)

\* int8_t exponent = (vout_mode & 0x1F); if (exponent > 15) exponent -= 32;
Exponent5(vout_mode) ==
  LET exponent == AndMask(vout_mode, 31)
  IN  IF exponent > 15 THEN exponent - 32 ELSE exponent

\* Linear16_ToDouble(uint16_t linear16, int8_t vout_mode)
Linear16_ToDouble(linear16, vout_mode) == Double(linear16, Exponent5(vout_mode))

\* Double_ToLinear16(double value, int8_t vout_mode): the words it can return
Double_ToLinear16(value, vout_mode) ==
  Uint16Cast(Quotient(value, Exponent5(vout_mode)))

\* values the encoders are given besides the representable ones: mantissas
\* around the bounds of the 11-bit field and of int16_t
EncodeMantissas ==
  {-70000, -32769, -32768, -1025, -1024, -3, 0, 3, 1023, 1024, 32767, 32768,
   70000}

\* whole voltages given to the 16-bit encoder
EncodeVoltages == {0, 1, 2, 3, 4, 5, 6, 255, 256, 4660, 16383}

\* exponents of the 5-bit field
Exponents == -16..15

\* everything above the conversions
upperVars == <<engineState, ioVars, hostVars, dispatchVars, bus, block>>

\* Linear11_ToDouble applied to a word
Decode11(w) ==
  /\ codec = NoCodec
  /\ codec' = [fn |-> "Linear11_ToDouble", word |-> w,
               decoded |-> Linear11_ToDouble(w)]
  /\ UNCHANGED <<upperVars, vout, sim, arith>>

\* Double_ToLinear11 applied to a value and an exponent, and
\* Linear11_ToDouble to the word it returned
Encode11(value, exp) ==
  /\ codec = NoCodec
  /\ Fits(value, exp)
  /\ \E w \in Double_ToLinear11(value, exp) :
       codec' = [fn |-> "Double_ToLinear11", value |-> value, exp |-> exp,
                 word |-> w, decoded |-> Linear11_ToDouble(w)]
  /\ UNCHANGED <<upperVars, vout, sim, arith>>

\* Double_ToLinear16 applied to a whole voltage and an exponent, and
\* Linear16_ToDouble to the word it returned
Encode16(v, exp) ==
  /\ codec = NoCodec
  /\ Fits(Double(v, 0), exp)
  /\ \E w \in Double_ToLinear16(Double(v, 0), exp) :
       codec' = [fn |-> "Double_ToLinear16", value |-> Double(v, 0),
                 exp |-> exp, word |-> w,
                 decoded |-> Linear16_ToDouble(w, exp)]
  /\ UNCHANGED <<upperVars, vout, sim, arith>>

\* one conversion per behaviour: the conversions keep no state, so a second
\* application shows nothing the first does not
NextCodec ==
  \/ codec = NoCodec /\ \E w \in 0..65535 : Decode11(w)
  \/ /\ codec = NoCodec
     /\ \E exp \in Exponents :
          \E value \in {Double(M, exp) : M \in -1024..1023}
                        \cup {Double(m, exp + d) : m \in EncodeMantissas,
                                                   d \in {-1, 0, 3}} :
            Encode11(value, exp)
  \/ codec = NoCodec /\ \E exp \in Exponents, v \in EncodeVoltages : Encode16(v, exp)

SpecCodec == Init /\ [][NextCodec]_vars

(***************************************************************************)
(* The exponent of the output voltage: VOUT_MODE (0x20) read by the        *)
(* low-level driver (pmbus_ll.c) and by the host (pmbus_host.c) around a   *)
(* voltage set or read                                                     *)
(***************************************************************************)
\* mode bytes the device answers with: exponents -13 and -9
ModeBytes == {19, 23}
\* statuses of a transfer of either driver
VoutStatuses == {"OK", "TIMEOUT"}
\* whole voltages set: two the 16-bit word holds at either exponent, the 12 V
\* of the guide's example, and a negative one
SetVoltages == {1, 5, 12, -1}
\* words the device answers a voltage read with
VoutWords == {4660, 40960}

\* PMBus_LL_GetVoutMode: the cache after it, which is what it returns
PMBus_LL_GetVoutMode(st, byte) ==
  IF st = "OK" THEN Exponent5(byte) ELSE vout.cached_vout_mode

\* PMBus_GetVoutMode: uint8_t vout_mode = 0; PMBus_ReadByteCmd(PMBC_VOUT_MODE,
\* &vout_mode); return vout_mode;
PMBus_GetVoutMode(st, byte) == IF st = "OK" THEN byte ELSE 0

\* a voltage operation of the low-level driver: it calls PMBus_LL_GetVoutMode
\* first; voltage is what a set was given (0 for a read)
LLOperation(fn, voltage, st, byte, word, status) ==
  vout' = [cached_vout_mode |-> PMBus_LL_GetVoutMode(st, byte),
           ll_read |-> IF st = "OK" THEN {Exponent5(byte)} ELSE vout.ll_read,
           host_read |-> vout.host_read,
           fn |-> fn,
           had_exponent |-> vout.ll_read # {},
           last_read |-> vout.ll_read,
           mode_read |-> TRUE,
           mode_status |-> st,
           exponent |-> Exponent5(PMBus_LL_GetVoutMode(st, byte)),
           word |-> word,
           status |-> status,
           voltage |-> voltage]

\* a voltage operation of the host: it calls PMBus_GetVoutMode first
HostOperation(fn, voltage, st, byte, word, status) ==
  vout' = [cached_vout_mode |-> vout.cached_vout_mode,
           ll_read |-> vout.ll_read,
           host_read |-> IF st = "OK" THEN {Exponent5(byte)}
                         ELSE vout.host_read,
           fn |-> fn,
           had_exponent |-> vout.host_read # {},
           last_read |-> vout.host_read,
           mode_read |-> TRUE,
           mode_status |-> st,
           exponent |-> Exponent5(PMBus_GetVoutMode(st, byte)),
           word |-> word,
           status |-> status,
           voltage |-> voltage]

voutFrame == <<upperVars, codec, sim, arith>>

\* PMBus_LL_SetVout(double voltage)
PMBus_LL_SetVout(voltage, st, byte, status) ==
  /\ \E vout_cmd \in Double_ToLinear16(Double(voltage, 0),
                                       PMBus_LL_GetVoutMode(st, byte)) :
       LLOperation("PMBus_LL_SetVout", voltage, st, byte, vout_cmd, status)
  /\ UNCHANGED voutFrame

\* PMBus_LL_ReadVout(void)
PMBus_LL_ReadVout(st, byte, word, status) ==
  /\ LLOperation("PMBus_LL_ReadVout", 0, st, byte, word, status)
  /\ UNCHANGED voutFrame

\* PMBus_SetVout(double voltage_v)
PMBus_SetVout(voltage, st, byte, status) ==
  /\ \E vout_cmd \in Double_ToLinear16(Double(voltage, 0),
                                       PMBus_GetVoutMode(st, byte)) :
       HostOperation("PMBus_SetVout", voltage, st, byte, vout_cmd, status)
  /\ UNCHANGED voutFrame

\* PMBus_GetVout(void)
PMBus_GetVout(st, byte, word, status) ==
  /\ HostOperation("PMBus_GetVout", 0, st, byte, word, status)
  /\ UNCHANGED voutFrame

\* PMBus_ReadVout(void)
PMBus_ReadVout(st, byte, word, status) ==
  /\ HostOperation("PMBus_ReadVout", 0, st, byte, word, status)
  /\ UNCHANGED voutFrame

\* what a voltage read returns: 0.0 when the transfer of the word failed
VoutValue ==
  IF vout.status = "OK" THEN Linear16_ToDouble(vout.word, vout.exponent)
  ELSE Double(0, 0)

NextVout ==
  \/ \E v \in SetVoltages, st \in VoutStatuses, byte \in ModeBytes,
        status \in VoutStatuses : PMBus_LL_SetVout(v, st, byte, status)
  \/ \E st \in VoutStatuses, byte \in ModeBytes, word \in VoutWords,
        status \in VoutStatuses : PMBus_LL_ReadVout(st, byte, word, status)
  \/ \E v \in SetVoltages, st \in VoutStatuses, byte \in ModeBytes,
        status \in VoutStatuses : PMBus_SetVout(v, st, byte, status)
  \/ \E st \in VoutStatuses, byte \in ModeBytes, word \in VoutWords,
        status \in VoutStatuses : PMBus_GetVout(st, byte, word, status)
  \/ \E st \in VoutStatuses, byte \in ModeBytes, word \in VoutWords,
        status \in VoutStatuses : PMBus_ReadVout(st, byte, word, status)

SpecVout == Init /\ [][NextVout]_vars

(***************************************************************************)
(* The arithmetic of TPT_RunPulses at the width of its C types: the hold   *)
(* time of an interval and the counter value a run ends at                 *)
(***************************************************************************)
\* Times here are counted in steps of 4 ns, which divide NsPerUnit, the
\* dead-time and 2^32 ns: the 32 bits of a uint32_t of nanoseconds are 30 bits
\* of such steps.
UnitSteps == NsPerUnit \div 4
DeadSteps == TPT_DEADTIME_NS \div 4

\* (uint32_t)(pulse_width_ns - TPT_DEADTIME_NS), in steps
Uint32Steps(steps) == steps % Pow2(30)

\* stored values of an interval: none, the shortest, the longest valid one
\* (maximum_period), and values an add of a longer period stores
HoldUnits ==
  {0, 1, 2, maximum_period \div minimum_period, 8589934, 8589935, 10000000,
   17179869}

\* the body of the pulse loop behind the dead-time for an interval of n
\* units: if (pulse_width_ns > TPT_DEADTIME_NS)
\* delay_ns((uint32_t)(pulse_width_ns - TPT_DEADTIME_NS));
HoldDelay(n) ==
  /\ arith = NoArith
  /\ arith' = [fn |-> "hold", units |-> n,
               held |-> n * UnitSteps > DeadSteps,
               delay |-> IF n * UnitSteps > DeadSteps
                         THEN Uint32Steps(n * UnitSteps - DeadSteps)
                         ELSE 0]
  /\ UNCHANGED <<upperVars, codec, vout, sim>>

\* a size_t of the target (32 bits), as its two 16-bit halves
Word32(hi, lo) == [hi |-> hi, lo |-> lo]

\* a + b in a size_t
Add32(a, b) ==
  Word32((a.hi + b.hi + ((a.lo + b.lo) \div 65536)) % 65536,
         (a.lo + b.lo) % 65536)

\* a - b in a size_t
Sub32(a, b) ==
  Word32((a.hi - b.hi - (IF a.lo < b.lo THEN 1 ELSE 0)) % 65536,
         (a.lo - b.lo) % 65536)

\* a < b of two size_t
Less32(a, b) == a.hi < b.hi \/ (a.hi = b.hi /\ a.lo < b.lo)

\* values of run_trains and of the count of a run command
CounterValues ==
  {Word32(0, n) : n \in 0..3} \cup {Word32(32768, 0), Word32(65535, 0)}
    \cup {Word32(65535, 65535 - n) : n \in 0..3}

\* number_repetitions += run_trains; for (; run_trains < number_repetitions;
\* run_trains++): the target, the repetitions the loop makes and the counter
\* it ends with
RunCounter(trains, count) ==
  /\ arith = NoArith
  /\ LET target == Add32(count, trains)
         final  == IF Less32(trains, target) THEN target ELSE trains
     IN  arith' = [fn |-> "run", run_trains |-> trains, count |-> count,
                   number_repetitions |-> target,
                   repetitions |-> Sub32(final, trains),
                   final |-> final]
  /\ UNCHANGED <<upperVars, codec, vout, sim>>

\* one computation per behaviour
NextArith ==
  \/ arith = NoArith /\ \E n \in HoldUnits : HoldDelay(n)
  \/ arith = NoArith /\ \E trains \in CounterValues, count \in CounterValues :
                          RunCounter(trains, count)

SpecArith == Init /\ [][NextArith]_vars

(***************************************************************************)
(* The command interpreter: one line is matched against the command table  *)
(* and its callback called                                                 *)
(***************************************************************************)
\* scpi_commands[]: <<pattern, callback>> in the order of the source; "NULL"
\* stands for a member the initializer leaves out.  The entry after
\* PMBus:PAGE? has both members commented out; SCPI_CMD_LIST_END is the last.
scpi_commands == <<
    <<"*CLS", "SCPI_CoreCls">>,
    <<"*ESE", "SCPI_CoreEse">>,
    <<"*ESE?", "SCPI_CoreEseQ">>,
    <<"*ESR?", "SCPI_CoreEsrQ">>,
    <<"*IDN?", "SCPI_CoreIdnQ">>,
    <<"*OPC", "SCPI_CoreOpc">>,
    <<"*OPC?", "TPT_CoreOpcQ">>,
    <<"*RST", "SCPI_CoreRst">>,
    <<"*SRE", "SCPI_CoreSre">>,
    <<"*SRE?", "SCPI_CoreSreQ">>,
    <<"*STB?", "SCPI_CoreStbQ">>,
    <<"*TST?", "SCPI_CoreTstQ">>,
    <<"*WAI", "SCPI_CoreWai">>,
    <<"SYSTem:ERRor[:NEXT]?", "SCPI_SystemErrorNextQ">>,
    <<"SYSTem:ERRor:COUNt?", "SCPI_SystemErrorCountQ">>,
    <<"SYSTem:VERSion?", "SCPI_SystemVersionQ">>,
    <<"CONFigure:PULses:ADD", "TPT_AddPulse">>,
    <<"CONFigure:PULses:CLEAR", "TPT_ClearPulses">>,
    <<"CONFigure:PULses?", "TPT_ReadPulses">>,
    <<"CONFigure:PULses:MINimum?", "TPT_GetMinimumPulse">>,
    <<"CONFigure:PULses:MAXimum?", "TPT_GetMaximumPulse">>,
    <<"APPlication:PULses:RUN", "TPT_RunPulses">>,
    <<"APPlication:PULses:COUNT?", "TPT_GetCountPulses">>,
    <<"PMBus:INITialize", "SCPI_PMBus_Init">>,
    <<"PMBus:ADDRess", "SCPI_PMBus_SetAddress">>,
    <<"PMBus:ADDRess?", "SCPI_PMBus_GetAddressQ">>,
    <<"PMBus:PAGE", "SCPI_PMBus_SetPage">>,
    <<"PMBus:PAGE?", "SCPI_PMBus_GetPageQ">>,
    <<"NULL", "NULL">>,
    <<"OUTPut[:STATe] ON", "SCPI_PMBus_PowerOn">>,
    <<"OUTPut[:STATe] OFF", "SCPI_PMBus_PowerOff">>,
    <<"OUTPut:PROTection:CLEar", "SCPI_PMBus_ClearFaults">>,
    <<"PMBus:OPERation", "SCPI_PMBus_SetOperation">>,
    <<"PMBus:OPERation?", "SCPI_PMBus_GetOperationQ">>,
    <<"PMBus:CLEar", "SCPI_PMBus_ClearFaults">>,
    <<"SOURce:VOLTage[:LEVel][:IMMediate][:AMPLitude]", "SCPI_PMBus_SetVoltage">>,
    <<"SOURce:VOLTage[:LEVel][:IMMediate][:AMPLitude]?", "SCPI_PMBus_GetVoltageQ">>,
    <<"[SOURce:]VOLTage", "SCPI_PMBus_SetVoltage">>,
    <<"[SOURce:]VOLTage?", "SCPI_PMBus_GetVoltageQ">>,
    <<"MEASure[:SCALar]:VOLTage[:DC]?", "SCPI_PMBus_MeasureVoltageQ">>,
    <<"MEASure[:SCALar]:CURRent[:DC]?", "SCPI_PMBus_MeasureCurrentQ">>,
    <<"MEASure[:SCALar]:POWer[:DC]?", "SCPI_PMBus_MeasurePowerQ">>,
    <<"MEASure[:SCALar]:TEMPerature?", "SCPI_PMBus_MeasureTemperatureQ">>,
    <<"MEASure[:SCALar]:VOLTage:INPut?", "SCPI_PMBus_MeasureVinQ">>,
    <<"MEASure[:SCALar]:CURRent:INPut?", "SCPI_PMBus_MeasureIinQ">>,
    <<"STATus:BYTE?", "SCPI_PMBus_GetStatusByteQ">>,
    <<"STATus:WORD?", "SCPI_PMBus_GetStatusWordQ">>,
    <<"SYSTem:MFR:ID?", "SCPI_PMBus_GetMfrIdQ">>,
    <<"SYSTem:MFR:MODel?", "SCPI_PMBus_GetMfrModelQ">>,
    <<"SYSTem:MFR:SERial?", "SCPI_PMBus_GetMfrSerialQ">>,
    <<"PMBus:REGister", "SCPI_PMBus_WriteReg">>,
    <<"PMBus:REGister?", "SCPI_PMBus_ReadRegQ">>,
    <<"NULL", "NULL">>
  >>

\* the scan of the table for a header: entries are tried in order up to the
\* first one without a pattern, which is how the end of the list is marked
RECURSIVE FindCommand(_, _)
FindCommand(h, i) ==
  IF i > Len(scpi_commands) THEN 0
  ELSE IF scpi_commands[i][1] = "NULL" THEN 0
  ELSE IF scpi_commands[i][1] = h THEN i
  ELSE FindCommand(h, i + 1)

\* an engine handler called by the interpreter: the handler, and the error
\* the interpreter records when its mandatory parameter did not parse
EngineCall(handler, prm) ==
  /\ handler
  /\ ParamErrorPushed(prm)
  /\ UNCHANGED <<pmbus_host, transfers>>

\* the call of a callback of the table
Call(cb, prm) ==
  CASE cb = "SCPI_CoreRst" -> SCPI_Reset
    [] cb = "SCPI_SystemErrorNextQ" -> SCPI_SystemErrorNextQ
    [] cb = "SCPI_SystemErrorCountQ" -> SCPI_SystemErrorCountQ
    [] cb = "TPT_CoreOpcQ" -> EngineCall(TPT_CoreOpcQ, NoArg)
    [] cb = "TPT_AddPulse" -> EngineCall(TPT_AddPulse(prm), prm)
    [] cb = "TPT_ClearPulses" -> EngineCall(TPT_ClearPulses, NoArg)
    [] cb = "TPT_ReadPulses" -> EngineCall(TPT_ReadPulses, NoArg)
    [] cb = "TPT_RunPulses" -> EngineCall(TPT_RunPulses(prm), prm)
    [] cb = "TPT_GetCountPulses" -> EngineCall(TPT_GetCountPulses, NoArg)
    [] cb = "SCPI_PMBus_Init" -> SCPI_PMBus_Init
    [] cb = "SCPI_PMBus_SetAddress" -> SCPI_PMBus_SetAddress(prm)
    [] cb = "SCPI_PMBus_GetAddressQ" -> SCPI_PMBus_GetAddressQ
    [] cb = "SCPI_PMBus_SetPage" -> SCPI_PMBus_SetPage(prm)
    [] cb = "SCPI_PMBus_GetPageQ" -> SCPI_PMBus_GetPageQ
    [] cb = "SCPI_PMBus_PowerOn" -> SCPI_PMBus_PowerOn
    [] cb = "SCPI_PMBus_PowerOff" -> SCPI_PMBus_PowerOff
    [] cb = "SCPI_PMBus_SetOperation" -> SCPI_PMBus_SetOperation(prm)
    [] cb = "SCPI_PMBus_GetOperationQ" -> SCPI_PMBus_GetOperationQ
    [] cb = "SCPI_PMBus_ClearFaults" -> SCPI_PMBus_ClearFaults
    [] cb = "SCPI_PMBus_SetVoltage" -> SCPI_PMBus_SetVoltage(prm)
    [] cb = "SCPI_PMBus_GetVoltageQ" -> SCPI_PMBus_GetVoltageQ
    [] cb = "SCPI_PMBus_MeasureVoltageQ" -> SCPI_PMBus_MeasureVoltageQ
    [] cb = "SCPI_PMBus_MeasureCurrentQ" -> SCPI_PMBus_MeasureCurrentQ
    [] cb = "SCPI_PMBus_MeasurePowerQ" -> SCPI_PMBus_MeasurePowerQ
    [] cb = "SCPI_PMBus_MeasureTemperatureQ" -> SCPI_PMBus_MeasureTemperatureQ
    [] cb = "SCPI_PMBus_MeasureVinQ" -> SCPI_PMBus_MeasureVinQ
    [] cb = "SCPI_PMBus_MeasureIinQ" -> SCPI_PMBus_MeasureIinQ
    [] cb = "SCPI_PMBus_GetStatusByteQ" -> SCPI_PMBus_GetStatusByteQ
    [] cb = "SCPI_PMBus_GetStatusWordQ" -> SCPI_PMBus_GetStatusWordQ
    [] cb = "SCPI_PMBus_GetMfrIdQ" -> SCPI_PMBus_GetMfrIdQ
    [] cb = "SCPI_PMBus_GetMfrModelQ" -> SCPI_PMBus_GetMfrModelQ
    [] cb = "SCPI_PMBus_GetMfrSerialQ" -> SCPI_PMBus_GetMfrSerialQ
    [] cb = "SCPI_PMBus_WriteReg" -> SCPI_PMBus_WriteReg(prm)
    [] cb = "SCPI_PMBus_ReadRegQ" -> SCPI_PMBus_ReadRegQ(prm)

\* a line given to the interpreter: the pattern its header is written after,
\* and its parameter
Line(pattern, prm) == [pattern |-> pattern, prm |-> prm]

\* one line handled: a header that no entry of the table matches is recorded
\* as an error and nothing is called
SCPI_Input(line) ==
  /\ pc = "idle"
  /\ header' = line.pattern
  /\ LET i == FindCommand(line.pattern, 1)
     IN  IF i = 0
         THEN /\ callback' = "NULL"
              /\ SCPI_ErrorPush("UNDEFINED_HEADER")
              /\ Responds("unmatched", NoArg, "ERR", <<>>)
              /\ UNCHANGED <<engineState, pmbus_host, transfers>>
         ELSE /\ callback' = scpi_commands[i][2]
              /\ Call(scpi_commands[i][2], line.prm)

\* lines of commands placed before PMBus:PAGE? in the table
LinesAhead ==
  {Line("*RST", NoArg),
   Line("SYSTem:ERRor[:NEXT]?", NoArg), Line("SYSTem:ERRor:COUNt?", NoArg),
   Line("CONFigure:PULses:ADD", Num(minimum_period)),
   Line("CONFigure:PULses:ADD", Absent),
   Line("CONFigure:PULses:CLEAR", NoArg), Line("CONFigure:PULses?", NoArg),
   Line("APPlication:PULses:RUN", Absent),
   Line("PMBus:INITialize", NoArg), Line("PMBus:PAGE", Num(1)),
   Line("PMBus:PAGE?", NoArg)}

\* lines of the documented commands placed behind PMBus:PAGE?
LinesBehind ==
  {Line("OUTPut[:STATe] ON", NoArg), Line("OUTPut[:STATe] OFF", NoArg),
   Line("OUTPut:PROTection:CLEar", NoArg),
   Line("SOURce:VOLTage[:LEVel][:IMMediate][:AMPLitude]", Num(12)),
   Line("SOURce:VOLTage[:LEVel][:IMMediate][:AMPLitude]?", NoArg),
   Line("MEASure[:SCALar]:VOLTage[:DC]?", NoArg),
   Line("MEASure[:SCALar]:CURRent[:DC]?", NoArg),
   Line("MEASure[:SCALar]:POWer[:DC]?", NoArg),
   Line("MEASure[:SCALar]:TEMPerature?", NoArg),
   Line("MEASure[:SCALar]:VOLTage:INPut?", NoArg),
   Line("MEASure[:SCALar]:CURRent:INPut?", NoArg),
   Line("STATus:BYTE?", NoArg), Line("STATus:WORD?", NoArg),
   Line("SYSTem:MFR:ID?", NoArg), Line("SYSTem:MFR:MODel?", NoArg),
   Line("SYSTem:MFR:SERial?", NoArg),
   Line("PMBus:REGister", RegArg(33, 4660, 2)),
   Line("PMBus:REGister?", RegArg(139, 0, 2))}

\* a line whose header is after no pattern of the table
LinesUnknown == {Line("CONFigure:PULses:REMOVE", NoArg)}

\* the model adds to an empty sequence only
Admitted(line) ==
  line.pattern = "CONFigure:PULses:ADD"
    => current_number_pulses = 0 /\ added = <<>>

NextDispatch ==
  \/ \E line \in LinesAhead \cup LinesBehind \cup LinesUnknown :
       Admitted(line) /\ SCPI_Input(line) /\ UNCHANGED llVars

SpecDispatch == Init /\ [][NextDispatch]_vars

(***************************************************************************)
(* Raw register access against a device that answers: the word written to  *)
(* VOUT_COMMAND (0x21) is what it reports on READ_VOUT (0x8B)               *)
(***************************************************************************)
\* words written to VOUT_COMMAND
RegisterValues == {0, 1, 255, 256, 4660, 13330, 43981, 65535}

\* PMBus_WriteWord: piobuf[1] = data & 0xFF; piobuf[2] = (data >> 8) & 0xFF,
\* the bytes in the order they are sent
PMBus_WriteWord(data) == <<BitAnd(data, 255), BitAnd(data \div 256, 255)>>

\* PMBus_ReadWordCmd: *data = piobuf[1] | piobuf[2] << 8, the bytes in the
\* order they were received
PMBus_ReadWordCmd(piobuf) == piobuf[1] + piobuf[2] * 256

\* the device takes a word low byte first
DeviceTakes(bytes) == bytes[1] + bytes[2] * 256

\* the device sends a word low byte first; READ_VOUT is VOUT_COMMAND, any
\* other register reads as 0
DeviceSends(c) ==
  IF c = 139 THEN <<sim.vout_command % 256, sim.vout_command \div 256>>
  ELSE <<0, 0>>

\* the status of a transfer to the device: it answers every transfer the host
\* starts
DeviceStatus == IF pmbus_host.initialized THEN "HAL_OK" ELSE "HAL_ERROR"

\* the word an initialized host was last told to write to VOUT_COMMAND
Commanded(prm) ==
  IF pmbus_host.initialized /\ prm.t = "reg" /\ prm.v = 33 /\ prm.size = 2
  THEN prm.data % 65536
  ELSE sim.sent

\* SCPI_PMBus_WriteReg with the device on the bus
RegisterWrite(prm) ==
  /\ IF prm.t = "absent"
     THEN /\ Rejected("PMBus:REGister", prm, "MISSING_PARAMETER")
          /\ UNCHANGED sim
     ELSE /\ Surfaced("PMBus:REGister", prm, <<DeviceStatus>>, <<>>)
          /\ sim' = [vout_command |->
                       IF pmbus_host.initialized /\ Uint8(prm.v) = 33
                          /\ prm.size = 2
                       THEN DeviceTakes(PMBus_WriteWord(prm.data % 65536))
                       ELSE sim.vout_command,
                     sent |-> Commanded(prm)]
  /\ UNCHANGED pmbus_host

\* SCPI_PMBus_ReadRegQ with the device on the bus
RegisterQuery(prm) ==
  /\ IF prm.t = "absent"
     THEN Rejected("PMBus:REGister?", prm, "MISSING_PARAMETER")
     ELSE Surfaced("PMBus:REGister?", prm, <<DeviceStatus>>,
                   <<IF prm.size = 2
                     THEN PMBus_ReadWordCmd(DeviceSends(Uint8(prm.v)))
                     ELSE DeviceSends(Uint8(prm.v))[1]>>)
  /\ UNCHANGED <<pmbus_host, sim>>

\* a line of raw register access handled by the interpreter
RegisterLine(line) ==
  /\ pc = "idle"
  /\ header' = line.pattern
  /\ LET i == FindCommand(line.pattern, 1)
     IN  IF i = 0
         THEN /\ callback' = "NULL"
              /\ SCPI_ErrorPush("UNDEFINED_HEADER")
              /\ Responds("unmatched", NoArg, "ERR", <<>>)
              /\ sim' = [sim EXCEPT !.sent = Commanded(line.prm)]
              /\ UNCHANGED <<engineState, pmbus_host, transfers>>
         ELSE /\ callback' = scpi_commands[i][2]
              /\ IF scpi_commands[i][2] = "SCPI_PMBus_WriteReg"
                 THEN RegisterWrite(line.prm)
                 ELSE RegisterQuery(line.prm)

\* lines and calls of raw register access
RegisterWrites ==
  {RegArg(33, v, 2) : v \in RegisterValues} \cup {RegArg(1, 128, 1)}
RegisterReads == {RegArg(139, 0, 2), RegArg(1, 0, 1)}

registerFrame == <<bus, block, codec, vout, arith>>

NextRegister ==
  \/ SCPI_PMBus_Init /\ UNCHANGED <<dispatchVars, llVars>>
  \/ \E prm \in RegisterWrites :
       RegisterLine(Line("PMBus:REGister", prm)) /\ UNCHANGED registerFrame
  \/ \E prm \in RegisterReads :
       RegisterLine(Line("PMBus:REGister?", prm)) /\ UNCHANGED registerFrame
  \/ \E prm \in RegisterWrites :
       RegisterWrite(prm) /\ UNCHANGED <<dispatchVars, registerFrame>>
  \/ \E prm \in RegisterReads :
       RegisterQuery(prm) /\ UNCHANGED <<dispatchVars, registerFrame>>

SpecRegister == Init /\ [][NextRegister]_vars

(***************************************************************************)
(* Properties                                                              *)
(***************************************************************************)
\* a run is between the start of its first repetition and the end of its last
RunInProgress ==
  \/ pc \in {"pulse_test", "dead_wait", "assert", "hold_wait", "rep_end"}
  \/ pc = "rep_test" /\ run_trains < number_repetitions

\* the answer of *OPC? in this state
OpcAnswer == IF running THEN 0 ELSE 1

EmptyResponse == [vals |-> <<>>, oob |-> 0]

\* C1: whenever an output is asserted, both outputs were off and had been off
\* for at least the dead-time (cycles * 10^9 >= 200 ns * clock), and the other
\* output stays off; every interval of a run begins by driving both off.
DeadTimeBeforeAssert ==
  /\ [][((positive_pin' /\ ~positive_pin) \/ (negative_pin' /\ ~negative_pin))
          => /\ BothOff
             /\ both_off_cycles * 1000 >= TPT_DEADTIME_NS * SystemCoreClockMHz
             /\ ~(positive_pin' /\ negative_pin')]_vars
  /\ [][pc = "pulse_test" /\ pc' = "dead_wait"
          => ~positive_pin' /\ ~negative_pin']_vars

\* the second interval of the second repetition holds the negative output,
\* asserted after the positive one
DeadTimeWitness ==
  /\ pc = "hold_wait"
  /\ negative_pin
  /\ pulse_index = 1
  /\ run_trains = 1

\* C2: the sequence length never exceeds the capacity of pulse_periods[]
LengthWithinCapacity ==
  current_number_pulses <= TPT_MAXIMUM_NUMBER_PULSES

\* C3: an add given while the sequence holds capacity intervals returns an
\* error and leaves contents, length, run counter and running flag unchanged
AddAtCapacityRejected ==
  [][(pc = "idle" /\ cmd' = "add" /\ current_number_pulses >= Capacity)
       => (result' = "ERR" /\ UNCHANGED engineVars)]_vars

OpcReflectsRun ==
  /\ RunInProgress => OpcAnswer = 0
  /\ pc = "idle" => OpcAnswer = 1

\* C6: after an accepted add of a period within [minimum, maximum] the entry of
\* that add holds round(period / minimum_period) and a read returns for it a
\* value within one quantisation step of the period
AddReadRoundTrip ==
  (pc = "idle" /\ cmd = "add" /\ result = "OK" /\ arg.t = "num"
     /\ minimum_period <= arg.v /\ arg.v <= maximum_period)
  => /\ ReadResponse.oob = 0
     /\ current_number_pulses = Len(added)
     /\ pulse_periods[current_number_pulses - 1] \in RoundedUnits(arg.v)
     /\ ReadResponse.vals[current_number_pulses] - arg.v <= minimum_period
     /\ arg.v - ReadResponse.vals[current_number_pulses] <= minimum_period

\* C7: an add whose period is zero, negative or not finite returns an error and
\* appends nothing
InvalidPeriodRejected ==
  [][(pc = "idle" /\ cmd' = "add"
        /\ (arg'.t = "inf" \/ (arg'.t = "num" /\ arg'.v <= 0)))
       => /\ result' = "ERR"
          /\ current_number_pulses' = current_number_pulses
          /\ pulse_periods' = pulse_periods]_vars

\* C8: an add whose period lies outside [minimum_period, maximum_period]
\* returns an error and changes neither the sequence, the counters nor the
\* outputs
OutOfRangeRejected ==
  [][(pc = "idle" /\ cmd' = "add" /\ arg'.t = "num"
        /\ (arg'.v < minimum_period \/ arg'.v > maximum_period))
       => /\ result' = "ERR"
          /\ UNCHANGED <<engineVars, positive_pin, negative_pin>>]_vars

\* C9: a clear sets the length to 0 and changes nothing else of the engine
\* (contents, run counter, running flag, outputs, interrupt mask), and a read
\* that follows a clear returns the empty sequence
ClearEmptiesSequence ==
  /\ [][pc = "idle" /\ cmd' = "clear"
          => /\ current_number_pulses' = 0
             /\ UNCHANGED <<pulse_periods, run_trains, running, positive_pin,
                            negative_pin, irq_enabled>>]_vars
  /\ [][cmd = "clear" /\ cmd' = "read" => out' = EmptyResponse]_vars

\* a clear has emptied a sequence whose first slot still holds an interval,
\* with runs counted
ClearWitness ==
  /\ cmd = "clear"
  /\ current_number_pulses = 0
  /\ pulse_periods[0] # 0
  /\ run_trains > 0

\* C10: a read returns the values of the accepted adds since the last clear or
\* reset, all of them and in their order, each times minimum_period
ReadReturnsAdded ==
  (pc = "idle" /\ cmd = "read")
  => out = [vals |-> [k \in 1..Len(added) |-> ToPeriod(added[k])], oob |-> 0]

RunWithoutCountRejected ==
  [][(pc = "idle" /\ cmd' = "run" /\ arg'.t = "absent")
       => /\ result' = "ERR"
          /\ pc' = "idle"
          /\ irq_enabled'
          /\ UNCHANGED <<engineVars, positive_pin, negative_pin,
                         deadtime_timer_initialized>>]_vars

\* a run without a count was refused with intervals stored and runs counted
RunWithoutCountWitness ==
  /\ pc = "idle"
  /\ cmd = "run"
  /\ arg = Absent
  /\ result = "ERR"
  /\ current_number_pulses > 0
  /\ run_trains > 0

\* C13: *RST leaves the sequence empty, the run counter 0, the running flag
\* false and both outputs off, whatever the state it is given in, and changes
\* nothing of the host: registry, current device, initialized flag.
ResetClearsEngineOnly ==
  [][pc = "idle" /\ cmd' = "reset"
       => /\ current_number_pulses' = 0
          /\ ReadResponse' = EmptyResponse
          /\ run_trains' = 0
          /\ ~running'
          /\ ~positive_pin' /\ ~negative_pin'
          /\ pmbus_host' = pmbus_host]_vars

\* a reset has been handled with the host initialized and readdressed
ResetWitness ==
  /\ cmd = "reset"
  /\ pmbus_host.initialized
  /\ CurrentDevice.address = 16
  /\ CurrentDevice.page = 1
  /\ pulse_periods[0] # 0

\* C14 (as stated): a line that matches no pattern of the table raises the
\* number of queued errors by exactly one in every state, a full queue
\* included, and changes nothing of the pulse engine.
UnmatchedCountsOne ==
  [][pc = "idle" /\ cmd' = "unmatched"
       => /\ Len(error_queue') = Len(error_queue) + 1
          /\ engineState' = engineState]_vars

\* C14 (amended): a line that matches no pattern of the table raises the
\* number of queued errors by one while the queue has room and leaves it at the
\* capacity when the queue is full; the sequence, the counter, the running
\* flag, the outputs and the host are unchanged.
UnmatchedCountsBounded ==
  [][pc = "idle" /\ cmd' = "unmatched"
       => /\ Len(error_queue') =
               Min(Len(error_queue) + 1, SCPI_ERROR_QUEUE_SIZE)
          /\ result' = "ERR"
          /\ engineState' = engineState
          /\ pmbus_host' = pmbus_host]_vars

\* an unmatched line has been handled with a pulse in the sequence and the
\* queue at its capacity
UnmatchedWitness ==
  /\ cmd = "unmatched"
  /\ callback = "NULL"
  /\ current_number_pulses > 0
  /\ Len(error_queue) = SCPI_ERROR_QUEUE_SIZE

\* C15: the error query answers the oldest queued error and leaves the others
\* in their order; the count query answers the number of queued errors and
\* removes none; while the queue has room an error is queued behind the ones
\* already there.
ErrorQueueFifo ==
  [][/\ (pc = "idle" /\ cmd' = "SYSTem:ERRor?" /\ error_queue # <<>>)
          => /\ out' = <<Head(error_queue)>>
             /\ error_queue' = Tail(error_queue)
     /\ (pc = "idle" /\ cmd' = "SYSTem:ERRor:COUNt?")
          => /\ out' = <<Len(error_queue)>>
             /\ error_queue' = error_queue
     /\ Len(error_queue') > Len(error_queue)
          => SubSeq(error_queue', 1, Len(error_queue)) = error_queue]_vars

\* two different errors were queued; the query has answered the older and the
\* newer is what remains
ErrorQueueFifoWitness ==
  /\ cmd = "SYSTem:ERRor?"
  /\ out = <<"UNDEFINED_HEADER">>
  /\ error_queue = <<"MISSING_PARAMETER">>

\* the callback the table holds for a pattern
TableCallback(h) ==
  scpi_commands[CHOOSE i \in 1..Len(scpi_commands) : scpi_commands[i][1] = h][2]

\* C20: a well-formed line of a documented command placed behind PMBus:PAGE?
\* in the table reaches the callback the table holds for it and produces no
\* unmatched-command error.
DocumentedDispatched ==
  header \in {l.pattern : l \in LinesBehind}
    => /\ callback = TableCallback(header)
       /\ cmd # "unmatched"

\* the elements of a sequence
Range(q) == {q[i] : i \in 1..Len(q)}

\* C16: after every command of the host one of whose bus transfers failed
\* (timeout, negative acknowledge, host not initialized) the handler has
\* returned an error result and an execution error is in the error queue
\* (unless the queue was full).
BusFailureSurfaced ==
  (/\ pc = "idle"
   /\ cmd \notin {"SYSTem:ERRor?", "SYSTem:ERRor:COUNt?"}
   /\ Range(transfers) \ {"HAL_OK"} # {})
    => /\ result = "ERR"
       /\ \/ "EXECUTION_ERROR" \in Range(error_queue)
          \/ Len(error_queue) = SCPI_ERROR_QUEUE_SIZE

\* C18: every bus transfer terminates: whatever the flags do, with the tick
\* advancing, a transfer that was called returns.
TransferTerminates ==
  (bus.pc = "run")
    ~> (/\ bus.pc = "idle"
        /\ bus.status \in {"PMBUS_OK", "PMBUS_TIMEOUT", "PMBUS_NACK", "HAL_OK",
                           "HAL_TIMEOUT", "HAL_ERROR"})

\* a transfer has returned TIMEOUT from a wait phase in which no flag came up,
\* with the tick behind the timeout
TransferTerminatesWitness ==
  /\ bus.pc = "idle"
  /\ bus.status = "PMBUS_TIMEOUT"
  /\ ~bus.flagged
  /\ bus.elapsed > PMBUS_TIMEOUT_MS

\* C17: a low-level transfer during which the device has not acknowledged has
\* returned NACK (never OK, never TIMEOUT), and one during which no flag was
\* up has returned TIMEOUT (never NACK).
NackReturnsNack ==
  (bus.pc = "idle" /\ bus.op \in LLTransfers /\ bus.status # "PMBUS_ERROR")
    => /\ bus.nacked => bus.status = "PMBUS_NACK"
       /\ ~bus.flagged => bus.status = "PMBUS_TIMEOUT"

\* C19: a block read that has succeeded has stored exactly min(L, max_len)
\* bytes and reports that number; no read stores a byte outside the caller's
\* buffer; an identification read that has succeeded has written the
\* terminating zero, and every terminating zero written is inside the
\* caller's buffer, for every max_len.
BlockReadBounded ==
  block.fn # "none"
    => /\ block.end = "ok"
            => block.stored = Min(block.L, block.cap) /\ block.len = block.stored
       /\ block.stored <= block.size
       /\ block.terminator # -1 => block.terminator < block.size
       /\ (block.end = "ok" /\ block.fn \in {"PMBus_LL_ReadMfrId", "PMBus_ReadMfrId"})
            => block.terminator # -1

\* C21: for every 16-bit word the 11-bit decode gives M * 2^E, M the low 11
\* bits and E the high 5 bits of the word, each read as two's complement.
Linear11Decodes ==
  codec.fn = "Linear11_ToDouble"
    => LET M == (((codec.word % 2048) + 1024) % 2048) - 1024
           E == ((((codec.word \div 2048) % 32) + 16) % 32) - 16
       IN  /\ M \in -1024..1023
           /\ E \in -16..15
           /\ DoubleEq(codec.decoded, Double(M, E))

\* the word 0xA7FF has been decoded: mantissa -1, exponent -12
Linear11DecodesWitness ==
  /\ codec.fn = "Linear11_ToDouble"
  /\ codec.word = 43007
  /\ codec.decoded = Double(-1, -12)

\* C22: the 11-bit encode puts clamp(trunc(v / 2^e), -1024, 1023) in two's
\* complement into the mantissa field, also when trunc(v / 2^e) is outside
\* the 16-bit signed range, and e into the exponent field.
Linear11EncodeClamps ==
  codec.fn = "Double_ToLinear11"
    => LET t == Quotient(codec.value, codec.exp)
           c == IF t > 1023 THEN 1023 ELSE IF t < -1024 THEN -1024 ELSE t
       IN  /\ codec.word % 2048 = c % 2048
           /\ codec.word \div 2048 = codec.exp % 32

\* C23: for every exponent e in -16..15 and every v = M * 2^e with M in
\* -1024..1023, decoding the encoding of (v, e) gives v.
Linear11RoundTrip ==
  (/\ codec.fn = "Double_ToLinear11"
   /\ codec.value.e = codec.exp
   /\ codec.value.m \in -1024..1023)
    => DoubleEq(codec.decoded, codec.value)

\* -1024 * 2^-16 has been encoded and decoded
Linear11RoundTripWitness ==
  /\ codec.fn = "Double_ToLinear11"
  /\ codec.value = Double(-1024, -16)
  /\ codec.exp = -16
  /\ codec.decoded = Double(-1024, -16)

\* C24 (as stated): for every exponent e in -16..15 and every whole v whose
\* mantissa v / 2^e is within 0..65535, decoding the 16-bit encoding of v
\* with e gives v.
Linear16RoundTrip ==
  (/\ codec.fn = "Double_ToLinear16"
   /\ Quotient(codec.value, codec.exp) \in 0..65535)
    => DoubleEq(codec.decoded, codec.value)

\* C24 (amended): the same for every whole v that is a multiple of 2^e
\* (every whole v when e <= 0).
Linear16RoundTripExact ==
  (/\ codec.fn = "Double_ToLinear16"
   /\ Quotient(codec.value, codec.exp) \in 0..65535
   /\ codec.exp > 0 => codec.value.m % Pow2(codec.exp) = 0)
    => DoubleEq(codec.decoded, codec.value)

\* 4660 has been encoded with exponent -3 and decoded
Linear16RoundTripWitness ==
  /\ codec.fn = "Double_ToLinear16"
  /\ codec.value = Double(4660, 0)
  /\ codec.exp = -3
  /\ codec.word = 37280
  /\ DoubleEq(codec.decoded, codec.value)

\* C25: with the simulated device on the bus, PMBus:REGister? 0x8B,2 answers
\* the 16-bit word that PMBus:REGister 0x21,<value>,2 last commanded.
RegisterRoundTrip ==
  (/\ sim.sent # -1
   /\ \/ cmd = "unmatched" /\ header = "PMBus:REGister?"
      \/ cmd = "PMBus:REGister?" /\ arg = RegArg(139, 0, 2))
    => result = "OK" /\ out = <<sim.sent>>

\* C26: interrupts are disabled in every state in which an output is
\* asserted, interrupts are enabled in every state in which no command is
\* being handled, and from the start of a run to its end no other command
\* is handled.
RunNonInterruptible ==
  /\ []((positive_pin \/ negative_pin) => ~irq_enabled)
  /\ [](pc = "idle" => irq_enabled)
  /\ [][pc # "idle" => cmd' = "run" /\ cmd' = cmd /\ arg' = arg]_vars

\* C28: the positive and the negative output are never asserted together.
NoShootThrough == ~(positive_pin /\ negative_pin)

\* the third interval of a repetition holds the positive output, asserted
\* after the negative one of the second
NoShootThroughWitness ==
  /\ pc = "hold_wait"
  /\ pulse_index = 2
  /\ positive_pin
  /\ ~negative_pin

\* C29: both outputs are off in every state in which no command is being
\* handled (after a run of any count, after a run command that failed, after
\* a reset); a repetition starts with both outputs off and ends with both off.
OutputsOffBetweenCommands ==
  /\ [](pc = "idle" => BothOff)
  /\ [][pc = "rep_test" /\ pc' = "pulse_test" => BothOff']_vars
  /\ [][pc = "rep_end" /\ pc' = "rep_test" => BothOff']_vars

\* a run of two repetitions of a stored sequence has returned
OutputsOffWitness ==
  /\ pc = "idle"
  /\ cmd = "run"
  /\ result = "OK"
  /\ arg = Num(2)
  /\ current_number_pulses = 2
  /\ BothOff

\* C30: the output an interval asserts is the positive one when the interval
\* is the 1st, 3rd, ... of its repetition and the negative one when it is the
\* 2nd, 4th, ...; each interval asserts exactly one output.
PolarityAlternates ==
  /\ [][positive_pin' /\ ~positive_pin => pulse_index % 2 = 0]_vars
  /\ [][negative_pin' /\ ~negative_pin => pulse_index % 2 = 1]_vars
  /\ [][pc = "assert" => (positive_pin' /\ ~positive_pin)
                           \/ (negative_pin' /\ ~negative_pin)]_vars

\* the second repetition of a sequence of one interval holds the positive
\* output
PolarityWitness ==
  /\ pc = "hold_wait"
  /\ current_number_pulses = 1
  /\ pulse_index = 0
  /\ arg = Num(2)
  /\ number_repetitions - run_trains = 1
  /\ positive_pin

\* C27: a voltage set or read reads the mode register before the operation
\* only when no exponent is cached, and when that read fails it converts
\* with the exponent last read with success.
CachedExponentUsed ==
  vout.fn # "none"
    => /\ vout.mode_read <=> ~vout.had_exponent
       /\ (vout.had_exponent /\ vout.mode_status # "OK")
            => vout.exponent \in vout.last_read

\* C31: the hold of an interval of n units is n * 500 ns - 200 ns when
\* n * 500 ns > 200 ns and there is none otherwise; the duration handed to
\* the delay is that value for every n that can be stored (in steps of 4 ns).
HoldNotTruncated ==
  arith.fn = "hold"
    => IF arith.units * 125 > 50
       THEN arith.held /\ arith.delay = arith.units * 125 - 50
       ELSE ~arith.held

\* C32: a run of count n from the counter value c makes n repetitions and
\* ends with the counter c + n, also when c + n does not fit the counter.
RunCountNoWrap ==
  arith.fn = "run"
    => /\ arith.repetitions = arith.count
       /\ arith.final.lo = (arith.run_trains.lo + arith.count.lo) % 65536
       /\ arith.final.hi
            = arith.run_trains.hi + arith.count.hi
                + ((arith.run_trains.lo + arith.count.lo) \div 65536)

\* C33: a run terminates: with the cycle counter advancing, TPT_RunPulses
\* that was called returns, with running false, interrupts enabled and both
\* outputs off.
RunTerminates ==
  (pc # "idle")
    ~> (/\ pc = "idle"
        /\ ~running
        /\ irq_enabled
        /\ BothOff)

\* a run of two repetitions of a sequence of at least two pulses has returned
RunTerminatesWitness ==
  /\ pc = "idle"
  /\ ~running
  /\ irq_enabled
  /\ BothOff
  /\ run_trains >= 2
  /\ current_number_pulses >= 2
  /\ elapsed > 0

\* C39: the word a voltage set has written is trunc(v / 2^e) when that is
\* within 0..65535; when it is outside (a negative voltage, or one too large
\* for the exponent) no value wrapped modulo 2^16 has been written.
VoutEncodingNoWrap ==
  (/\ vout.fn \in {"PMBus_LL_SetVout", "PMBus_SetVout"}
   /\ vout.status = "OK"
   /\ vout.exponent <= 0)
    => LET t == vout.voltage * Pow2(-vout.exponent)
       IN  IF t >= 0 /\ t <= 65535 THEN vout.word = t
           ELSE vout.word # t % 65536

\* C38: PMBus:ADDRess <a> makes a the address of the current device only when
\* 0x08 <= a <= 0x77; every other integer (one above 255 or negative whose
\* low eight bits are in the range included) is rejected with an
\* illegal-parameter error and the host is unchanged; once the host is
\* initialized the stored address is within 0x08..0x77.
AddressValidated ==
  /\ [](pmbus_host.initialized => CurrentDevice.address \in 8..119)
  /\ [][(cmd' = "PMBus:ADDRess" /\ arg'.t = "num")
          => IF arg'.v \in 8..119
             THEN /\ result' = "OK"
                  /\ pmbus_host'.devices[pmbus_host'.current_device].address
                       = arg'.v
             ELSE /\ result' = "ERR"
                  /\ pmbus_host' = pmbus_host
                  /\ \/ "ILLEGAL_PARAMETER_VALUE" \in Range(error_queue')
                     \/ Len(error_queue') = SCPI_ERROR_QUEUE_SIZE]_vars

\* C37: a page selection is committed only on success: PMBus:PAGE <page> has
\* changed the stored page of the current device, and nothing else of the
\* host's records, when the page write returned HAL_OK; when the write failed
\* the page, the address and the other device records are as they were.
PageCommittedOnSuccess ==
  [][(cmd' = "PMBus:PAGE" /\ arg'.t = "num")
       => IF transfers' = <<"HAL_OK">>
          THEN pmbus_host' =
                 [pmbus_host EXCEPT
                    !.devices[pmbus_host.current_device].page = arg'.v % 256]
          ELSE pmbus_host' = pmbus_host]_vars

\* a write of page 0 has failed on an initialized host whose current device is
\* on page 1, and the page is still 1
PageCommittedWitness ==
  /\ pmbus_host.initialized
  /\ cmd = "PMBus:PAGE"
  /\ arg = Num(0)
  /\ transfers = <<"HAL_TIMEOUT">>
  /\ result = "ERR"
  /\ CurrentDevice.page = 1

\* C35: the bus is released after a failure: a low-level read that has
\* returned TIMEOUT or NACK from a phase started without automatic end (the
\* command-write phase of read byte, read word and read block, the length
\* phase of read block) has issued a STOP before it returned.
BusReleasedAfterFailure ==
  (/\ bus.pc = "idle"
   /\ bus.op \in {"PMBus_LL_ReadByte", "PMBus_LL_ReadWord", "PMBus_LL_ReadBlock"}
   /\ bus.status \in {"PMBUS_TIMEOUT", "PMBUS_NACK"}
   /\ ~bus.cr2.autoend)
    => bus.cr2.stop

\* a is the beginning of b
StartsWith(b, a) == Len(a) <= Len(b) /\ a = SubSeq(b, 1, Len(a))

\* C34: the order of a read byte and a read word on the bus: the command byte
\* is written first, in a phase without automatic end (no STOP); the read
\* phase (a repeated START for 1 or 2 bytes, with automatic end) begins only
\* after the wait for transfer-complete of the write phase has succeeded; the
\* bytes are taken in the order they arrive, the low byte first; the one STOP
\* of the transaction is the automatic one behind the last byte, and a read
\* that has returned OK has waited for it.
ReadProtocolOrder ==
  (bus.op \in {"PMBus_LL_ReadByte", "PMBus_LL_ReadWord"})
    => LET n == IF bus.op = "PMBus_LL_ReadByte" THEN 1 ELSE 2
           take == <<Wait("RXNE"), ReadRXDR>>
           order == <<SetCR2(FALSE, 1, FALSE), Wait("TXE"), WriteTXDR,
                      Wait("TC"), SetCR2(TRUE, n, TRUE)>>
                      \o (IF n = 1 THEN take ELSE take \o take)
                      \o <<WaitStop>>
       IN  /\ StartsWith(order, bus.events)
           /\ StartsWith(bus.arrived, bus.data)
           /\ bus.events # <<>> => ~bus.cr2.stop
           /\ (bus.pc = "idle" /\ bus.status = "PMBUS_OK")
                => /\ bus.events = order
                   /\ Len(bus.data) = n

\* a read word has returned OK with the low byte 0 and the high byte 2, which
\* arrived in this order
ReadProtocolWitness ==
  /\ bus.pc = "idle"
  /\ bus.op = "PMBus_LL_ReadWord"
  /\ bus.status = "PMBUS_OK"
  /\ bus.data = <<0, 2>>
  /\ bus.arrived = <<0, 2>>

\* the call has returned st without a START written to CR2, a flag touched, a
\* wait begun, a statement completed or a byte handed to the caller
Refused(st) ==
  /\ bus'.pc = "idle"
  /\ bus'.status = st
  /\ bus'.cr2 = bus.cr2
  /\ bus'.isr = bus.isr
  /\ bus'.stack = bus.stack
  /\ bus'.events = <<>>
  /\ bus'.data = <<>>
  /\ block' = block

\* C36: no bus transaction before initialisation: a transfer primitive (send,
\* write byte, write word, read byte, read word, block read, of the
\* low-level driver and of the host) called while its driver is not
\* initialized (never, or de-initialized) returns an error without starting a
\* bus transaction and without writing its output parameter.
NoTransactionBeforeInit ==
  [][(/\ bus.pc = "idle"
      /\ bus' # bus
      /\ bus'.pmbus_initialized = bus.pmbus_initialized)
       => /\ (bus'.op \in LLTransfers /\ ~bus.pmbus_initialized)
               => Refused("PMBUS_ERROR")
          /\ (bus'.op \notin LLTransfers /\ ~pmbus_host.initialized)
               => Refused("HAL_ERROR")]_vars

\* a read byte of the host has been refused on a host that was initialized and
\* de-initialized, behind a low-level transfer that had started a transaction
NoTransactionWitness ==
  /\ ~pmbus_host.initialized
  /\ pmbus_host.device_count = 1
  /\ bus.pc = "idle"
  /\ bus.op = "PMBus_ReadByteCmd"
  /\ bus.status = "HAL_ERROR"
  /\ bus.cr2.nbytes > 0
  /\ bus.events = <<>>

====
